---- MODULE Spec2Model ----
(***************************************************************************)
(* Fault-tolerance primitives of the repository: the two CircuitBreaker    *)
(* classes and the two RetryPolicy classes                                 *)
(*   "obs" : src/packages/observability/src/resilience.ts                  *)
(*   "pat" : src/unnamed/part_000                                          *)
(* Node runs every synchronous stretch of a handler to completion, so each *)
(* action below is one such stretch: the head of execute up to its await,  *)
(* or the continuation after the awaited operation settled.                *)
(***************************************************************************)
EXTENDS Integers, Sequences, FiniteSets, TLC

VARIABLES
  cbClass,    \* which CircuitBreaker class the instance is: "obs" or "pat"
  cbCfg,      \* its configuration: [failureThreshold, resetTimeout]
  cb,         \* the instance's private fields
  now,        \* Date.now()
  inflight,   \* operations invoked through execute and not settled yet
  cbEvent,    \* history: the step just taken and what it did
  hist,       \* history: what the claims speak about (never read by the code)
  rpClass,    \* which RetryPolicy class the instance is: "obs" or "pat"
  rpCfg,      \* its configuration
  rpPred,     \* the shouldRetry argument of the call (pat class)
  rp,         \* one execute call: its locals, and the history of what it did
  bhClass,    \* which Bulkhead class the instance is: "obs" or "pat"
  bhCfg,      \* its configuration: [maxConcurrent, maxQueue]
  bh,         \* the instance's private fields: [running, queue]
  bhRuns,     \* the runs awaiting their operation: [caller, op]
  bhCalls,    \* history: one record per execute call, in call order
  rlCfg,      \* the RateLimiter's configuration: [maxRequests, windowMs]
  rl,         \* its private field: [requests]
  rlLog,      \* history: one record per acquire call, in call order
  toClass,    \* which timeout guard: "obs" (TimeoutManager) or "pat" (Timeout)
  toCfg,      \* its configuration: [response] or [timeoutMs]
  toCalls,    \* one record per guarded call: timer, operation, promise
  caCfg,      \* the CacheAside's configuration: [ttlMs, maxSize]
  ca,         \* its Map, as the entries [key, data, expiry] in insertion order
  caGets,     \* one record per get call: where it is, and what it did
  caIntact,   \* history: the gets whose key was not deleted since they started
  mgLayers,   \* ResilienceManager: the layers configured for the target
  mgCalls,    \* one record per ResilienceManager.execute call for the target
  mgr         \* a ResilienceManager with several targets: its Maps

cbVars == <<cbClass, cbCfg, cb, now, inflight, cbEvent, hist>>

\* The circuit breaker's variables but the clock, which others read too.
cbNoClock == <<cbClass, cbCfg, cb, inflight, cbEvent, hist>>

rpVars == <<rpClass, rpCfg, rpPred, rp>>

bhVars == <<bhClass, bhCfg, bh, bhRuns, bhCalls>>

rlVars == <<rlCfg, rl, rlLog>>

toVars == <<toClass, toCfg, toCalls>>

caVars == <<caCfg, ca, caGets, caIntact>>

mgVars == <<mgLayers, mgCalls, mgr>>

vars == <<cbClass, cbCfg, cb, now, inflight, cbEvent, hist,
          rpClass, rpCfg, rpPred, rp,
          bhClass, bhCfg, bh, bhRuns, bhCalls,
          rlCfg, rl, rlLog,
          toClass, toCfg, toCalls,
          caCfg, ca, caGets, caIntact,
          mgLayers, mgCalls, mgr>>

\* What the steps of each component leave alone.
notCB == <<rpVars, bhVars, rlVars, toVars, caVars, mgVars>>
notRP == <<cbVars, bhVars, rlVars, toVars, caVars, mgVars>>
notBH == <<cbVars, rpVars, rlVars, toVars, caVars, mgVars>>
notRL == <<cbNoClock, rpVars, bhVars, toVars, caVars, mgVars>>
notTO == <<cbNoClock, rpVars, bhVars, rlVars, caVars, mgVars>>
notCA == <<cbNoClock, rpVars, bhVars, rlVars, toVars, mgVars>>

\* The manager runs the target's own breaker, bulkhead, retry policy and
\* timeout manager: cb and bh are theirs, the calls are in mgCalls.
notMG == <<cbClass, cbCfg, inflight, cbEvent, hist, rpVars,
           bhClass, bhCfg, bhRuns, bhCalls, rlVars, toVars, caVars, mgLayers,
           mgr>>

\* The manager of several targets keeps every component in mgr.
notTG == <<cbNoClock, rpVars, bhVars, rlVars, toVars, caVars, mgLayers,
           mgCalls>>

(***************************************************************************)
(* Bounds of the model.                                                    *)
(***************************************************************************)
MaxThreshold == 2
MaxResetTimeout == 2
MaxTime == 4
MaxInFlight == 2
MaxCount == 3
MaxAttempts == 3
MaxDelayMs == 3
MaxMultiplier == 2
MaxConcurrent == 2
MaxQueue == 2
MaxCalls == 4
MaxRequests == 2
MaxWindowMs == 3
MaxAcquires == 5
MaxTimeoutMs == 2
MaxGuarded == 2
MaxTtlMs == 2
MaxSize == 2
MaxGets == 2
MaxManaged == 2
MaxTargetTicks == 2

\* JavaScript's undefined, for the optional number fields.
Undefined == -1

\* Date.now() at construction; 0 is the pat class's "no failure yet" stamp.
StartTime == 1

Classes == {"obs", "pat"}

(***************************************************************************)
(* CircuitBreaker of resilience.ts.                                        *)
(***************************************************************************)
ObsInit ==
  [state |-> "CLOSED", failureCount |-> 0, successCount |-> 0,
   lastFailureTime |-> Undefined, lastSuccessTime |-> Undefined,
   nextRetryTime |-> Undefined]

\* this.nextRetryTime || 0
ObsRetryAt(b) == IF b.nextRetryTime = Undefined THEN 0 ELSE b.nextRetryTime

\* The head of execute: the state test before the operation is invoked.
ObsExecuteHead(b, c, t) ==
  IF b.state = "OPEN"
  THEN IF t >= ObsRetryAt(b)
       THEN [cb |-> [b EXCEPT !.state = "HALF_OPEN"], invoke |-> TRUE]
       ELSE [cb |-> b, invoke |-> FALSE]
  ELSE [cb |-> b, invoke |-> TRUE]

\* Clears failureCount on every success, whatever the state.
Mut_ObsOnSuccessClears(b, t) ==
  [b EXCEPT !.successCount = @ + 1, !.lastSuccessTime = t,
            !.failureCount = 0,
            !.state = IF @ = "HALF_OPEN" THEN "CLOSED" ELSE @]

\* Closes the breaker on a success recorded in any state.
Mut_ObsOnSuccess(b, t) ==
  [b EXCEPT !.successCount = @ + 1, !.lastSuccessTime = t,
            !.state = "CLOSED",
            !.failureCount = IF b.state = "CLOSED" THEN @ ELSE 0]

ObsOnSuccess(b, t) ==
  LET b1 == [b EXCEPT !.successCount = @ + 1, !.lastSuccessTime = t]
  IN  IF b1.state = "HALF_OPEN"
      THEN [b1 EXCEPT !.state = "CLOSED", !.failureCount = 0]
      ELSE b1

\* Off by one: trips only when the count exceeds the threshold.
Mut_ObsOnFailure(b, c, t) ==
  LET b1 == [b EXCEPT !.failureCount = @ + 1, !.lastFailureTime = t]
  IN  IF b1.failureCount > c.failureThreshold
      THEN [b1 EXCEPT !.state = "OPEN", !.nextRetryTime = t + c.resetTimeout]
      ELSE b1

ObsOnFailure(b, c, t) ==
  LET b1 == [b EXCEPT !.failureCount = @ + 1, !.lastFailureTime = t]
  IN  IF b1.failureCount >= c.failureThreshold
      THEN [b1 EXCEPT !.state = "OPEN", !.nextRetryTime = t + c.resetTimeout]
      ELSE b1

\* Forgets the failure counter.
Mut_ObsReset(b) ==
  [b EXCEPT !.state = "CLOSED", !.successCount = 0,
            !.lastFailureTime = Undefined, !.lastSuccessTime = Undefined,
            !.nextRetryTime = Undefined]

ObsReset(b) ==
  [b EXCEPT !.state = "CLOSED", !.failureCount = 0, !.successCount = 0,
            !.lastFailureTime = Undefined, !.lastSuccessTime = Undefined,
            !.nextRetryTime = Undefined]

(***************************************************************************)
(* CircuitBreaker of part_000.  It has no lastSuccessTime and no           *)
(* nextRetryTime; the record keeps the two fields at Undefined.            *)
(***************************************************************************)
PatSuccessesToClose == 3

PatInit ==
  [state |-> "CLOSED", failureCount |-> 0, successCount |-> 0,
   lastFailureTime |-> 0, lastSuccessTime |-> Undefined,
   nextRetryTime |-> Undefined]

\* Strict comparison: one tick late.
Mut_PatShouldAttemptReset(b, c, t) == t - b.lastFailureTime > c.resetTimeout

PatShouldAttemptReset(b, c, t) == t - b.lastFailureTime >= c.resetTimeout

\* A rejected call counts as a failure seen now.
Mut_PatExecuteHead(b, c, t) ==
  IF b.state = "OPEN"
  THEN IF PatShouldAttemptReset(b, c, t)
       THEN [cb |-> [b EXCEPT !.state = "HALF_OPEN", !.successCount = 0],
             invoke |-> TRUE]
       ELSE [cb |-> [b EXCEPT !.lastFailureTime = t], invoke |-> FALSE]
  ELSE [cb |-> b, invoke |-> TRUE]

PatExecuteHead(b, c, t) ==
  IF b.state = "OPEN"
  THEN IF PatShouldAttemptReset(b, c, t)
       THEN [cb |-> [b EXCEPT !.state = "HALF_OPEN", !.successCount = 0],
             invoke |-> TRUE]
       ELSE [cb |-> b, invoke |-> FALSE]
  ELSE [cb |-> b, invoke |-> TRUE]

PatOnSuccess(b) ==
  LET b1 == [b EXCEPT !.failureCount = 0]
  IN  IF b1.state = "HALF_OPEN"
      THEN LET b2 == [b1 EXCEPT !.successCount = @ + 1]
           IN  IF b2.successCount >= PatSuccessesToClose
               THEN [b2 EXCEPT !.state = "CLOSED"]
               ELSE b2
      ELSE b1

\* No HALF_OPEN branch: only the threshold opens the breaker.
Mut_PatOnFailure(b, c, t) ==
  LET b1 == [b EXCEPT !.failureCount = @ + 1, !.lastFailureTime = t]
  IN  IF b1.failureCount >= c.failureThreshold
      THEN [b1 EXCEPT !.state = "OPEN"]
      ELSE b1

PatOnFailure(b, c, t) ==
  LET b1 == [b EXCEPT !.failureCount = @ + 1, !.lastFailureTime = t]
  IN  IF b1.state = "HALF_OPEN"
      THEN [b1 EXCEPT !.state = "OPEN"]
      ELSE IF b1.failureCount >= c.failureThreshold
           THEN [b1 EXCEPT !.state = "OPEN"]
           ELSE b1

PatReset(b) ==
  [b EXCEPT !.state = "CLOSED", !.failureCount = 0, !.successCount = 0,
            !.lastFailureTime = 0]

(***************************************************************************)
(* The instance under check is of one class or the other.                  *)
(***************************************************************************)
CBInitial(k) == IF k = "obs" THEN ObsInit ELSE PatInit

CBExecuteHead(k, b, c, t) ==
  IF k = "obs" THEN ObsExecuteHead(b, c, t) ELSE PatExecuteHead(b, c, t)

CBOnSuccess(k, b, t) == IF k = "obs" THEN ObsOnSuccess(b, t) ELSE PatOnSuccess(b)

CBOnFailure(k, b, c, t) ==
  IF k = "obs" THEN ObsOnFailure(b, c, t) ELSE PatOnFailure(b, c, t)

CBResetTo(k, b) == IF k = "obs" THEN ObsReset(b) ELSE PatReset(b)

(***************************************************************************)
(* Errors and values of the operations handed to RetryPolicy.execute.      *)
(* Strings are sequences of characters, so that String.includes is a       *)
(* substring test.                                                         *)
(***************************************************************************)
ErrorNames == {<<"a">>, <<"b">>}
ErrorMessages == {<<>>, <<"a">>, <<"b">>, <<"a", "b">>, <<"b", "a">>}
Errors == [name : ErrorNames, message : ErrorMessages]
NoError == [name |-> <<"none">>, message |-> <<>>]
Values == {"v1", "v2"}
NoResult == [kind |-> "none", value |-> "none", error |-> NoError]

\* The retryableErrors lists tried: none, one pattern, the empty pattern, two.
RetryableErrorLists ==
  {{}, {<<"a">>}, {<<"a", "b">>}, {<<>>}, {<<"b">>, <<"a", "a">>}}

\* The shouldRetry arguments tried: omitted, or a test of the error's name.
NoPredicate == [given |-> FALSE, accepts |-> {}]
Predicates == {NoPredicate} \cup [given : {TRUE}, accepts : SUBSET ErrorNames]

Min(a, b) == IF a <= b THEN a ELSE b

RECURSIVE Pow(_, _)
Pow(b, n) == IF n = 0 THEN 1 ELSE b * Pow(b, n - 1)

\* s.includes(p)
Includes(s, p) ==
  \E i \in 0..(Len(s) - Len(p)) : SubSeq(s, i + 1, i + Len(p)) = p

RPIdle ==
  [pc |-> "idle", attempt |-> 0, delay |-> 0, lastError |-> NoError,
   result |-> NoResult, sleep10 |-> 0,
   invocations |-> 0, failed |-> 0, sleeps |-> 0, thrown |-> NoError,
   returned |-> "none"]

Settle(r, kind, v, e) ==
  [r EXCEPT !.pc = kind,
            !.result = [kind |-> kind, value |-> v, error |-> e]]

(***************************************************************************)
(* RetryPolicy of resilience.ts.  Delays are kept in tenths of a           *)
(* millisecond (sleep10) so that a jitter of up to 10% stays an integer.   *)
(***************************************************************************)
\* A truthy operand ends the || chain: any pattern at all makes it true.
Mut_ObsIsRetryableError(c, e) == \E p \in c.retryableErrors : TRUE

ObsIsRetryableError(c, e) ==
  \E p \in c.retryableErrors : Includes(e.message, p) \/ Includes(e.name, p)

\* let delay = initialDelay; attempt = 1; the first await operation().
ObsRetryStart(c, r) ==
  LET r1 == [r EXCEPT !.delay = c.initialDelay, !.attempt = 1]
  IN  IF r1.attempt <= c.maxAttempts
      THEN [r1 EXCEPT !.pc = "running"]
      ELSE Settle(r1, "rejected", "none", r1.lastError)

ObsRetryOnResolve(r, v) == Settle(r, "resolved", v, NoError)

\* The catch block, up to await sleep(delay).
ObsRetryOnReject(c, r, e) ==
  LET r1 == [r EXCEPT !.lastError = e]
  IN  IF r1.attempt = c.maxAttempts
      THEN Settle(r1, "rejected", "none", r1.lastError)
      ELSE IF ~ObsIsRetryableError(c, r1.lastError)
           THEN Settle(r1, "rejected", "none", r1.lastError)
           ELSE [r1 EXCEPT !.pc = "sleeping", !.sleep10 = 10 * r1.delay]

\* After the sleep: the delay grows, attempt++, the loop test, the next await.
ObsRetryOnWake(c, r) ==
  LET r1 == [r EXCEPT !.delay = Min(r.delay * c.backoffMultiplier, c.maxDelay),
                      !.attempt = @ + 1]
  IN  IF r1.attempt <= c.maxAttempts
      THEN [r1 EXCEPT !.pc = "running"]
      ELSE Settle(r1, "rejected", "none", r1.lastError)

(***************************************************************************)
(* RetryPolicy of part_000.                                                *)
(***************************************************************************)
\* shouldRetry: (error) => boolean, () => true when omitted.
PatShouldRetry(pred, e) == IF pred.given THEN e.name \in pred.accepts ELSE TRUE

PatDelay(c, attempt) ==
  Min(c.baseDelay * Pow(c.backoffMultiplier, attempt - 1), c.maxDelay)

\* delay * 0.1 * Math.random(), in tenths of a millisecond: Math.random() is
\* in [0, 1), so the jitter is in [0, delay) tenths.
PatJitter10(delay) == 0..(delay - 1)

PatRetryStart(c, r) ==
  LET r1 == [r EXCEPT !.attempt = 1]
  IN  IF r1.attempt <= c.maxAttempts
      THEN [r1 EXCEPT !.pc = "running"]
      ELSE Settle(r1, "rejected", "none", r1.lastError)

PatRetryOnResolve(r, v) == Settle(r, "resolved", v, NoError)

\* Gives up with the error remembered before this attempt's is stored.
Mut_PatRetryOnReject(c, pred, r, e, j) ==
  LET r1 == [r EXCEPT !.lastError = e]
  IN  IF r1.attempt = c.maxAttempts \/ ~PatShouldRetry(pred, e)
      THEN Settle(r1, "rejected", "none", r.lastError)
      ELSE [r1 EXCEPT !.pc = "sleeping",
                      !.sleep10 = 10 * PatDelay(c, r1.attempt) + j]

PatRetryOnReject(c, pred, r, e, j) ==
  LET r1 == [r EXCEPT !.lastError = e]
  IN  IF r1.attempt = c.maxAttempts \/ ~PatShouldRetry(pred, e)
      THEN Settle(r1, "rejected", "none", e)
      ELSE [r1 EXCEPT !.pc = "sleeping",
                      !.sleep10 = 10 * PatDelay(c, r1.attempt) + j]

PatRetryOnWake(c, r) ==
  LET r1 == [r EXCEPT !.attempt = @ + 1]
  IN  IF r1.attempt <= c.maxAttempts
      THEN [r1 EXCEPT !.pc = "running"]
      ELSE Settle(r1, "rejected", "none", r1.lastError)

(***************************************************************************)
(* The policy under check is of one class or the other.                    *)
(***************************************************************************)
RetryConfigs(k) ==
  IF k = "obs"
  THEN [maxAttempts : 1..MaxAttempts, initialDelay : 1..MaxDelayMs,
        maxDelay : 1..MaxDelayMs, backoffMultiplier : 1..MaxMultiplier,
        retryableErrors : RetryableErrorLists]
  ELSE [maxAttempts : 1..MaxAttempts, baseDelay : 1..MaxDelayMs,
        maxDelay : 1..MaxDelayMs, backoffMultiplier : 1..MaxMultiplier]

RetryStart(k, c, r) ==
  IF k = "obs" THEN ObsRetryStart(c, r) ELSE PatRetryStart(c, r)

RetryOnResolve(k, r, v) ==
  IF k = "obs" THEN ObsRetryOnResolve(r, v) ELSE PatRetryOnResolve(r, v)

RetryOnReject(k, c, pred, r, e, j) ==
  IF k = "obs" THEN ObsRetryOnReject(c, r, e)
  ELSE PatRetryOnReject(c, pred, r, e, j)

RetryOnWake(k, c, r) ==
  IF k = "obs" THEN ObsRetryOnWake(c, r) ELSE PatRetryOnWake(c, r)

\* The jitter the step may draw: none in resilience.ts.
RetryJitter10(k, c, r) ==
  IF k = "obs" THEN {0} ELSE PatJitter10(PatDelay(c, r.attempt))

(***************************************************************************)
(* Bulkhead of resilience.ts.  A queue entry holds the caller's resolve    *)
(* and reject; a run is a runOperation frame awaiting its operation, for   *)
(* the caller it will settle.  Calls are numbered in call order, and       *)
(* call i hands in operation i.                                            *)
(***************************************************************************)
\* () => Promise.resolve(), the operation processQueue runs.
NoOp == 0

Run(caller, op) == [caller |-> caller, op |-> op]

BulkheadInit == [running |-> 0, queue |-> <<>>]

\* The callers waiting in the queue.
Queued(b) == {b.queue[n].caller : n \in 1..Len(b.queue)}

\* runOperation, up to await operation().
ObsRunOperation(b, caller, op) ==
  [bh |-> [b EXCEPT !.running = @ + 1], started |-> {Run(caller, op)}]

\* Lets the queue grow one past maxQueue.
Mut_ObsBulkheadExecute(b, c, i) ==
  IF b.running < c.maxConcurrent
  THEN ObsRunOperation(b, i, i)
  ELSE IF Len(b.queue) <= c.maxQueue
       THEN [bh |-> [b EXCEPT !.queue = Append(@, [caller |-> i])],
             started |-> {}]
       ELSE [bh |-> b, started |-> {}]

ObsBulkheadExecute(b, c, i) ==
  IF b.running < c.maxConcurrent
  THEN ObsRunOperation(b, i, i)
  ELSE IF Len(b.queue) < c.maxQueue
       THEN [bh |-> [b EXCEPT !.queue = Append(@, [caller |-> i])],
             started |-> {}]
       ELSE [bh |-> b, started |-> {}]

\* Takes the newest waiter (pop) instead of the oldest (shift).
Mut_ObsProcessQueue(b, c) ==
  IF Len(b.queue) > 0 /\ b.running < c.maxConcurrent
  THEN ObsRunOperation([b EXCEPT !.queue = SubSeq(@, 1, Len(@) - 1)],
                       b.queue[Len(b.queue)].caller, NoOp)
  ELSE [bh |-> b, started |-> {}]

ObsProcessQueue(b, c) ==
  IF Len(b.queue) > 0 /\ b.running < c.maxConcurrent
  THEN ObsRunOperation([b EXCEPT !.queue = Tail(@)], Head(b.queue).caller, NoOp)
  ELSE [bh |-> b, started |-> {}]

\* Gives the slot back and leaves the queue alone.
Mut_ObsRunFinally(b, c) ==
  [bh |-> [b EXCEPT !.running = @ - 1], started |-> {}]

\* The finally block of runOperation.
ObsRunFinally(b, c) == ObsProcessQueue([b EXCEPT !.running = @ - 1], c)

(***************************************************************************)
(* Bulkhead of part_000.  A queue entry also holds the operation; every    *)
(* call is pushed, and process() takes the head when a slot is free.       *)
(***************************************************************************)
\* Takes one run more than the semaphore allows.
Mut_PatProcess(b, c) ==
  IF b.running > c.maxConcurrent \/ Len(b.queue) = 0
  THEN [bh |-> b, started |-> {}]
  ELSE [bh |-> [b EXCEPT !.running = @ + 1, !.queue = Tail(@)],
        started |-> {Run(Head(b.queue).caller, Head(b.queue).op)}]

PatProcess(b, c) ==
  IF b.running >= c.maxConcurrent \/ Len(b.queue) = 0
  THEN [bh |-> b, started |-> {}]
  ELSE [bh |-> [b EXCEPT !.running = @ + 1, !.queue = Tail(@)],
        started |-> {Run(Head(b.queue).caller, Head(b.queue).op)}]

PatBulkheadExecute(b, c, i) ==
  PatProcess([b EXCEPT !.queue = Append(@, [caller |-> i, op |-> i])], c)

\* The finally block of process.
PatRunFinally(b, c) == PatProcess([b EXCEPT !.running = @ - 1], c)

(***************************************************************************)
(* The bulkhead under check is of one class or the other.                  *)
(***************************************************************************)
BulkheadConfigs(k) ==
  IF k = "obs"
  THEN [maxConcurrent : 0..MaxConcurrent, maxQueue : 0..MaxQueue]
  ELSE [maxConcurrent : 0..MaxConcurrent]

BulkheadExecute(k, b, c, i) ==
  IF k = "obs" THEN ObsBulkheadExecute(b, c, i) ELSE PatBulkheadExecute(b, c, i)

BulkheadRunFinally(k, b, c) ==
  IF k = "obs" THEN ObsRunFinally(b, c) ELSE PatRunFinally(b, c)

\* What the caller's promise is settled with: the outcome of the operation
\* awaited, or the bulkhead's own error.
Outcome(kind, op) == [kind |-> kind, of |-> op]
Pending == Outcome("pending", NoOp)
BulkheadFull == Outcome("full", NoOp)

(***************************************************************************)
(* RateLimiter of part_000.  acquire() has no await: it is one step.       *)
(***************************************************************************)
\* What arithmetic on undefined gives.
NaN == -2

RateLimiterInit == [requests |-> <<>>]

\* requests.filter(time => now - time < windowMs)
InWindow(requests, c, t) ==
  SelectSeq(requests, LAMBDA time : t - time < c.windowMs)

\* requests[0] of an empty array is undefined.
ArrayFirst(a) == IF Len(a) = 0 THEN Undefined ELSE a[1]

\* windowMs - (now - oldestRequest)
WaitTime(c, t, oldestRequest) ==
  IF oldestRequest = Undefined THEN NaN ELSE c.windowMs - (t - oldestRequest)

\* Admits once more than maxRequests allows.
Mut_PatAcquire(r, c, t) ==
  LET kept == InWindow(r.requests, c, t)
  IN  IF Len(kept) > c.maxRequests
      THEN [rl |-> [r EXCEPT !.requests = kept], ok |-> FALSE,
            wait |-> WaitTime(c, t, ArrayFirst(kept))]
      ELSE [rl |-> [r EXCEPT !.requests = Append(kept, t)], ok |-> TRUE,
            wait |-> 0]

\* Records the rejected acquire too.
Mut_PatAcquireRecordsAll(r, c, t) ==
  LET kept == InWindow(r.requests, c, t)
  IN  IF Len(kept) >= c.maxRequests
      THEN [rl |-> [r EXCEPT !.requests = Append(kept, t)], ok |-> FALSE,
            wait |-> WaitTime(c, t, ArrayFirst(kept))]
      ELSE [rl |-> [r EXCEPT !.requests = Append(kept, t)], ok |-> TRUE,
            wait |-> 0]

\* acquire() at time t: ok says whether it returned, wait is the waitTime
\* of the error it threw.
PatAcquire(r, c, t) ==
  LET kept == InWindow(r.requests, c, t)
  IN  IF Len(kept) >= c.maxRequests
      THEN [rl |-> [r EXCEPT !.requests = kept], ok |-> FALSE,
            wait |-> WaitTime(c, t, ArrayFirst(kept))]
      ELSE [rl |-> [r EXCEPT !.requests = Append(kept, t)], ok |-> TRUE,
            wait |-> 0]

(***************************************************************************)
(* The timeout guards: TimeoutManager of resilience.ts and Timeout of      *)
(* part_000.  Both return Promise.race([operation(), timer promise]); a    *)
(* promise keeps the first outcome it is settled with.                     *)
(***************************************************************************)
TimedOut == Outcome("timeout", NoOp)

\* A value that comes after the timeout error replaces it.
Mut_RaceSettleValueWins(promise, outcome) ==
  IF promise = Pending \/ (promise.kind = "timeout" /\ outcome.kind = "resolved")
  THEN outcome ELSE promise

\* Promise.race: the last outcome wins.
Mut_RaceSettle(promise, outcome) == outcome

\* resolve/reject on a promise: ignored once it is settled.
RaceSettle(promise, outcome) ==
  IF promise = Pending THEN outcome ELSE promise

\* setTimeout(..., config.response) set at time t.
ObsTimeoutExecute(c, t) == [deadline |-> t + c.response]

\* setTimeout(..., timeoutMs) set at time t.
PatTimeoutExecute(c, t) == [deadline |-> t + c.timeoutMs]

TimeoutConfigs(k) ==
  IF k = "obs" THEN [response : 0..MaxTimeoutMs] ELSE [timeoutMs : 0..MaxTimeoutMs]

TimeoutExecute(k, c, t) ==
  IF k = "obs" THEN ObsTimeoutExecute(c, t) ELSE PatTimeoutExecute(c, t)

(***************************************************************************)
(* CacheAside of part_000.  The Map is the sequence of its entries in      *)
(* insertion order; setting a key that is present keeps its position.      *)
(***************************************************************************)
\* The keys used; the empty string is a key like any other.
Keys == {"", "a"}

MapHas(cache, key) == \E n \in 1..Len(cache) : cache[n].key = key

MapGet(cache, key) == cache[CHOOSE n \in 1..Len(cache) : cache[n].key = key]

MapDelete(cache, key) == SelectSeq(cache, LAMBDA e : e.key # key)

MapSet(cache, entry) ==
  IF MapHas(cache, entry.key)
  THEN [n \in 1..Len(cache) |->
          IF cache[n].key = entry.key THEN entry ELSE cache[n]]
  ELSE Append(cache, entry)

\* Also returns an entry that expires at this very instant.
Mut_PatCacheLookup(cache, key, t) ==
  IF MapHas(cache, key) /\ MapGet(cache, key).expiry >= t
  THEN [hit |-> TRUE, data |-> MapGet(cache, key).data]
  ELSE [hit |-> FALSE, data |-> Undefined]

\* The head of get: the cached data on a hit, or fetchFunction() invoked.
PatCacheLookup(cache, key, t) ==
  IF MapHas(cache, key) /\ MapGet(cache, key).expiry > t
  THEN [hit |-> TRUE, data |-> MapGet(cache, key).data]
  ELSE [hit |-> FALSE, data |-> Undefined]

\* set(key, data) at time t; evicted is the set of keys it deleted.
\* if (firstKey) is false for undefined and for the empty string.
PatCacheSet(cache, c, key, data, t) ==
  LET full == Len(cache) >= c.maxSize
      evicted == IF full /\ Len(cache) > 0 /\ cache[1].key # ""
                 THEN {cache[1].key} ELSE {}
      kept == IF evicted = {} THEN cache ELSE Tail(cache)
  IN  [cache |-> MapSet(kept, [key |-> key, data |-> data,
                               expiry |-> t + c.ttlMs]),
       evicted |-> evicted]

\* The errors a fetchFunction rejects with.
FetchErrors == {e \in Errors : e.message = <<>>}

\* Also drops what the Map held for the key.
Mut_PatCacheFetchFailed(cache, key, e) ==
  [cache |-> MapDelete(cache, key), evicted |-> {key}, error |-> e]

\* await fetchFunction() throws e inside get: the rest of get is skipped
\* and the promise of get rejects with e.
PatCacheFetchFailed(cache, key, e) ==
  [cache |-> cache, evicted |-> {}, error |-> e]

(***************************************************************************)
(* ResilienceManager.execute of resilience.ts, for one target.  The        *)
(* wrapped operation is built inside out: circuit breaker, retry policy,   *)
(* timeout manager, bulkhead; a layer not configured is left out.  The     *)
(* world w = [calls, cb, bh] is what one call's progress can change; g     *)
(* holds the target's configuration.                                       *)
(***************************************************************************)
Layers == {"circuitBreaker", "retry", "timeout", "bulkhead"}

\* new Error('Circuit breaker is OPEN')
CircuitOpenError == [name |-> <<"E">>, message |-> <<"o">>]

\* The errors the target's operation rejects with.
OperationErrors ==
  {[name |-> <<"a">>, message |-> <<>>], [name |-> <<"b">>, message |-> <<>>]}

\* One execute call.  slot: what the bulkhead did with it; caller: the
\* promise execute returned; timer, deadline, race: the timeout manager's
\* race; retry, wakeAt: the retry loop; op: whether the caller's operation
\* is in flight.  History: invoked, timers, attemptsAtTimer; passed says
\* that the call is past the bulkhead, due is timeout.response after that
\* moment while the caller is pending, late that it was settled after it;
\* last is how the operation last settled; tripped says that the breaker
\* opened while the retry loop of the call was under way.
ManagedCall ==
  [slot |-> "none", caller |-> Pending, passed |-> FALSE, due |-> Undefined,
   late |-> FALSE, timer |-> "none", deadline |-> Undefined,
   timers |-> 0, attemptsAtTimer |-> 0, race |-> Pending,
   retry |-> RPIdle, wakeAt |-> Undefined, op |-> "none", invoked |-> 0,
   last |-> [kind |-> "none", error |-> NoError], tripped |-> FALSE]

\* The call passes the bulkhead at time t.
MgPassed(c, g, t) ==
  [c EXCEPT !.passed = TRUE,
            !.due = IF "timeout" \in g.layers THEN t + g.timeout.response
                    ELSE Undefined]

\* The promise of the call settles.
MgResolveCaller(w, i, outcome, t) ==
  IF w.calls[i].caller = Pending
  THEN [w EXCEPT !.calls[i].caller = outcome,
                 !.calls[i].late = w.calls[i].due # Undefined /\ t > w.calls[i].due,
                 !.calls[i].due = Undefined]
  ELSE w

\* Bulkhead.runOperation after await operation(): the caller is settled,
\* the slot released, and processQueue starts the no-op for the next waiter.
MgRunSettled(w, g, i, outcome, t) ==
  LET r == ObsRunFinally(w.bh, g.bulkhead)
      w1 == MgResolveCaller(w, i, outcome, t)
  IN  [w1 EXCEPT !.bh = r.bh,
                 !.calls = [j \in DOMAIN w1.calls |->
                    IF \E f \in r.started : f.caller = j
                    THEN [MgPassed(w1.calls[j], g, t) EXCEPT !.slot = "noop"]
                    ELSE IF j = i THEN [w1.calls[j] EXCEPT !.slot = "released"]
                    ELSE w1.calls[j]]]

\* The promise of TimeoutManager.execute (or of the layer below) settles.
MgTimeoutSettled(w, g, i, outcome, t) ==
  IF "bulkhead" \in g.layers
  THEN MgRunSettled(w, g, i, outcome, t)
  ELSE MgResolveCaller(w, i, outcome, t)

\* An input of the race settles.
MgRaceInput(w, g, i, outcome, t) ==
  IF "timeout" \in g.layers
  THEN LET p == RaceSettle(w.calls[i].race, outcome)
           w1 == [w EXCEPT !.calls[i].race = p]
       IN  IF w.calls[i].race = Pending
           THEN MgTimeoutSettled(w1, g, i, p, t)
           ELSE w1
  ELSE MgTimeoutSettled(w, g, i, outcome, t)

\* What the caller sees of a settled retry loop or attempt: the value of
\* operation i, or the error thrown.
MgOutcome(i, kind, e) == [kind |-> kind, of |-> i, error |-> e]

\* The attempt's promise settles: the retry loop goes on, or there is none.
MgAttemptSettled(w, g, i, kind, e, t) ==
  IF "retry" \in g.layers
  THEN LET r == IF kind = "resolved"
                THEN ObsRetryOnResolve(w.calls[i].retry, "v1")
                ELSE ObsRetryOnReject(g.retry, w.calls[i].retry, e)
           w1 == [w EXCEPT !.calls[i].retry = r]
       IN  IF r.pc = "sleeping"
           THEN [w1 EXCEPT !.calls[i].wakeAt = t + r.delay]
           ELSE MgRaceInput(w1, g, i, MgOutcome(i, r.pc, r.result.error), t)
  ELSE MgRaceInput(w, g, i, MgOutcome(i, kind, e), t)

\* Invokes the operation without asking the breaker.
Mut_MgAttempt(w, g, i, t) ==
  [w EXCEPT !.calls[i].op = "inflight", !.calls[i].invoked = @ + 1]

\* One attempt: circuitBreaker.execute(operation), or operation().
MgAttempt(w, g, i, t) ==
  LET invoked == [w EXCEPT !.calls[i].op = "inflight",
                           !.calls[i].invoked = @ + 1]
  IN  IF "circuitBreaker" \in g.layers
      THEN LET h == ObsExecuteHead(w.cb, g.circuitBreaker, t)
           IN  IF h.invoke
               THEN [invoked EXCEPT !.cb = h.cb]
               ELSE MgAttemptSettled(w, g, i, "rejected", CircuitOpenError, t)
      ELSE invoked

\* retryPolicy.execute(...) up to its first await, or the single attempt.
MgRetryExecute(w, g, i, t) ==
  IF "retry" \in g.layers
  THEN LET r == ObsRetryStart(g.retry, RPIdle)
           w1 == [w EXCEPT !.calls[i].retry = r]
       IN  IF r.pc = "running"
           THEN MgAttempt(w1, g, i, t)
           ELSE MgRaceInput(w1, g, i, MgOutcome(i, r.pc, r.result.error), t)
  ELSE MgAttempt(w, g, i, t)

\* Sets the timer whether or not the target has a timeout configured.
Mut_MgTimeoutExecute(w, g, i, t) ==
  MgRetryExecute(
    [w EXCEPT !.calls[i].timer = "pending",
              !.calls[i].deadline = ObsTimeoutExecute(g.timeout, t).deadline,
              !.calls[i].timers = @ + 1,
              !.calls[i].attemptsAtTimer = w.calls[i].invoked],
    g, i, t)

\* timeoutManager.execute(...): the timer is set, then the layer below runs.
MgTimeoutExecute(w, g, i, t) ==
  IF "timeout" \in g.layers
  THEN MgRetryExecute(
         [w EXCEPT !.calls[i].timer = "pending",
                   !.calls[i].deadline = ObsTimeoutExecute(g.timeout, t).deadline,
                   !.calls[i].timers = @ + 1,
                   !.calls[i].attemptsAtTimer = w.calls[i].invoked],
         g, i, t)
  ELSE MgRetryExecute(w, g, i, t)

\* bulkhead.execute(...): run, queued or rejected; or no bulkhead at all.
MgBulkheadExecute(w, g, i, t) ==
  IF "bulkhead" \in g.layers
  THEN LET r == ObsBulkheadExecute(w.bh, g.bulkhead, i)
           w1 == [w EXCEPT !.bh = r.bh]
       IN  IF r.started # {}
           THEN MgTimeoutExecute(
                  [w1 EXCEPT !.calls[i] = [MgPassed(@, g, t) EXCEPT !.slot = "own"]],
                  g, i, t)
           ELSE IF i \in Queued(r.bh)
           THEN [w1 EXCEPT !.calls[i].slot = "queued"]
           ELSE MgResolveCaller([w1 EXCEPT !.calls[i].slot = "full"], i,
                                BulkheadFull, t)
  ELSE MgTimeoutExecute([w EXCEPT !.calls[i] = MgPassed(@, g, t)], g, i, t)

\* The breaker records nothing for a call that has timed out.
Mut_MgOperationSettled(w, g, i, kind, e, t) ==
  LET w1 == [w EXCEPT !.calls[i].op = "none",
                      !.calls[i].last = [kind |-> kind, error |-> e]]
      w2 == IF "circuitBreaker" \in g.layers /\ w.calls[i].race = Pending
            THEN [w1 EXCEPT !.cb = IF kind = "resolved"
                                   THEN ObsOnSuccess(w.cb, t)
                                   ELSE ObsOnFailure(w.cb, g.circuitBreaker, t)]
            ELSE w1
  IN  MgAttemptSettled(w2, g, i, kind, e, t)

\* The operation of call i settled: the breaker records it.
MgOperationSettled(w, g, i, kind, e, t) ==
  LET w1 == [w EXCEPT !.calls[i].op = "none",
                      !.calls[i].last = [kind |-> kind, error |-> e]]
      w2 == IF "circuitBreaker" \in g.layers
            THEN [w1 EXCEPT !.cb = IF kind = "resolved"
                                   THEN ObsOnSuccess(w.cb, t)
                                   ELSE ObsOnFailure(w.cb, g.circuitBreaker, t)]
            ELSE w1
  IN  MgAttemptSettled(w2, g, i, kind, e, t)

\* The sleep of the retry loop is over.
MgWake(w, g, i, t) ==
  LET r == ObsRetryOnWake(g.retry, w.calls[i].retry)
      w1 == [w EXCEPT !.calls[i].retry = r, !.calls[i].wakeAt = Undefined]
  IN  IF r.pc = "running"
      THEN MgAttempt(w1, g, i, t)
      ELSE MgRaceInput(w1, g, i, MgOutcome(i, r.pc, r.result.error), t)

\* The timer of the timeout manager fires.
MgTimerFired(w, g, i, t) ==
  MgRaceInput([w EXCEPT !.calls[i].timer = "fired",
                        !.calls[i].deadline = Undefined], g, i, TimedOut, t)

(***************************************************************************)
(* ResilienceManager.getServiceHealth of resilience.ts: a read of the      *)
(* target's breaker.  A number is kept as the fraction num / den, den > 0. *)
(***************************************************************************)
\* circuitBreaker?.getMetrics() when the target has no breaker.
NoMetrics == [defined |-> FALSE]

ObsGetMetrics(b) ==
  [defined |-> TRUE, state |-> b.state, failureCount |-> b.failureCount,
   successCount |-> b.successCount, lastFailureTime |-> b.lastFailureTime,
   lastSuccessTime |-> b.lastSuccessTime, nextRetryTime |-> b.nextRetryTime]

\* Reports CLOSED as healthy whatever failureCount is.
Mut_ObsDetermineStatus(metrics) ==
  IF ~metrics.defined THEN "healthy"
  ELSE IF metrics.state = "OPEN" THEN "unhealthy"
  ELSE IF metrics.state = "HALF_OPEN" THEN "degraded"
  ELSE "healthy"

ObsDetermineStatus(metrics) ==
  IF ~metrics.defined THEN "healthy"
  ELSE IF metrics.state = "OPEN" THEN "unhealthy"
  ELSE IF metrics.state = "HALF_OPEN" THEN "degraded"
  ELSE IF metrics.failureCount > 0 THEN "degraded"
  ELSE "healthy"

Fraction(n, d) == [num |-> n, den |-> d]

\* Returns the quotient without the factor.
Mut_ObsCalculateErrorRate(metrics) ==
  IF ~metrics.defined THEN Fraction(0, 1)
  ELSE IF metrics.failureCount + metrics.successCount = 0 THEN Fraction(0, 1)
  ELSE Fraction(metrics.failureCount,
                metrics.failureCount + metrics.successCount)

\* (failureCount / (failureCount + successCount)) * 100
ObsCalculateErrorRate(metrics) ==
  IF ~metrics.defined THEN Fraction(0, 1)
  ELSE IF metrics.failureCount + metrics.successCount = 0 THEN Fraction(0, 1)
  ELSE Fraction(metrics.failureCount * 100,
                metrics.failureCount + metrics.successCount)

\* getServiceHealth(service) for a target with these layers and breaker.
ObsGetServiceHealth(layers, b) ==
  LET metrics == IF "circuitBreaker" \in layers THEN ObsGetMetrics(b)
                 ELSE NoMetrics
  IN  [status |-> ObsDetermineStatus(metrics),
       errorRate |-> ObsCalculateErrorRate(metrics),
       circuitBreaker |-> metrics]

(***************************************************************************)
(* ResilienceManager of resilience.ts with several targets.  m.configs is  *)
(* the configs Map, m.targets holds for each service what the four         *)
(* component Maps hold for it, together with its execute calls;  m.said   *)
(* holds the health reports the last call on the manager returned.        *)
(***************************************************************************)
Services == {"x", "y"}

\* configs.keys(), in insertion order.
ServiceOrder == <<"x", "y">>

NoManager == [configs |-> <<>>, targets |-> <<>>, said |-> <<>>]

\* new ResilienceManager(configs): initializeComponents builds each
\* service's own components.
ObsManager(configs) ==
  [configs |-> configs,
   targets |-> [s \in DOMAIN configs |->
                  [calls |-> <<>>, cb |-> ObsInit, bh |-> BulkheadInit]],
   said |-> <<>>]

\* Every service is handed the breaker of the first one.
Mut_MgrComponents(m, service) ==
  [m.targets[service] EXCEPT !.cb = m.targets[ServiceOrder[1]].cb]

\* circuitBreakers.get(service), bulkheads.get(service), ...
MgrComponents(m, service) == m.targets[service]

\* The components of the service after a step of one of its calls.
MgrBecomes(m, service, w) ==
  [m EXCEPT !.targets[service] = w, !.said = <<>>]

\* execute(service, operation), up to the first await.
MgrExecute(m, service, t) ==
  LET w == MgrComponents(m, service)
  IN  MgrBecomes(m, service,
        MgBulkheadExecute([w EXCEPT !.calls = Append(@, ManagedCall)],
                          m.configs[service], Len(w.calls) + 1, t))

\* Reading the metrics moves an OPEN breaker that is due to HALF_OPEN.
Mut_MgrGetServiceHealth(m, service, t) ==
  LET w == MgrComponents(m, service)
      g == m.configs[service]
      b == IF "circuitBreaker" \in g.layers
           THEN ObsExecuteHead(w.cb, g.circuitBreaker, t).cb ELSE w.cb
  IN  [mgr |-> [m EXCEPT !.targets[service].cb = b],
       report |-> [service |-> service, lastCheck |-> t,
                   health |-> ObsGetServiceHealth(g.layers, b)]]

\* getServiceHealth(service): the report, and the manager after the call.
MgrGetServiceHealth(m, service, t) ==
  [mgr |-> m,
   report |-> [service |-> service, lastCheck |-> t,
               health |-> ObsGetServiceHealth(m.configs[service].layers,
                                              MgrComponents(m, service).cb)]]

RECURSIVE MgrHealthOf(_, _, _)
\* services.map(service => this.getServiceHealth(service))
MgrHealthOf(m, services, t) ==
  IF services = <<>> THEN [mgr |-> m, reports |-> <<>>]
  ELSE LET r == MgrGetServiceHealth(m, Head(services), t)
           rest == MgrHealthOf(r.mgr, Tail(services), t)
       IN  [mgr |-> rest.mgr, reports |-> <<r.report>> \o rest.reports]

\* getAllServiceHealth()
MgrGetAllServiceHealth(m, t) == MgrHealthOf(m, ServiceOrder, t)

(***************************************************************************)
(* History.  run: failures recorded in a row; tripAt: when the run last    *)
(* reached failureThreshold; openedAt: when the state last became OPEN;    *)
(* lastFailAt: when a failure was last recorded; hoSucc: successes         *)
(* recorded in HALF_OPEN since it was last entered; hoFailAt: when a       *)
(* failure was last recorded in HALF_OPEN; sinceReset: failures recorded   *)
(* since a reset() no execute has followed yet; servedAfter: that count,   *)
(* on the execute step that follows the reset; hoFail: failures recorded   *)
(* since HALF_OPEN was last entered, while the breaker stays HALF_OPEN.    *)
(***************************************************************************)
HistInit ==
  [run |-> 0, tripAt |-> Undefined, openedAt |-> Undefined,
   lastFailAt |-> Undefined, hoSucc |-> 0, hoFailAt |-> Undefined,
   sinceReset |-> Undefined, servedAfter |-> Undefined, hoFail |-> 0]

Event(op, result) == [op |-> op, result |-> result]

\* Each component's variables while another one is checked.
BHParked ==
  /\ bhClass = "obs"
  /\ bhCfg = [maxConcurrent |-> 0, maxQueue |-> 0]
  /\ bh = BulkheadInit
  /\ bhRuns = {}
  /\ bhCalls = <<>>

RLParked ==
  /\ rlCfg = [maxRequests |-> 0, windowMs |-> 1]
  /\ rl = RateLimiterInit
  /\ rlLog = <<>>

TOParked ==
  /\ toClass = "obs"
  /\ toCfg = [response |-> 0]
  /\ toCalls = <<>>

CAParked ==
  /\ caCfg = [ttlMs |-> 1, maxSize |-> 1]
  /\ ca = <<>>
  /\ caGets = <<>>
  /\ caIntact = {}

MGParked ==
  /\ mgLayers = {}
  /\ mgCalls = <<>>
  /\ mgr = NoManager

RPParked ==
  /\ rpClass = "obs"
  /\ rpCfg = [maxAttempts |-> 1, initialDelay |-> 1, maxDelay |-> 1,
              backoffMultiplier |-> 1, retryableErrors |-> {}]
  /\ rpPred = NoPredicate
  /\ rp = RPIdle

CBParked ==
  /\ cbClass = "obs"
  /\ cbCfg = [failureThreshold |-> 1, resetTimeout |-> 1]
  /\ cb = ObsInit
  /\ now = StartTime
  /\ inflight = 0
  /\ cbEvent = Event("init", "none")
  /\ hist = HistInit

CBInit ==
  /\ MGParked
  /\ CAParked
  /\ TOParked
  /\ RLParked
  /\ RPParked
  /\ BHParked
  /\ cbClass \in Classes
  /\ cbCfg \in [failureThreshold : 1..MaxThreshold, resetTimeout : 1..MaxResetTimeout]
  /\ cb = CBInitial(cbClass)
  /\ now = StartTime
  /\ inflight = 0
  /\ cbEvent = Event("init", "none")
  /\ hist = HistInit

\* execute(): rejected while OPEN and the retry time not reached, else the
\* operation is invoked (and an OPEN breaker becomes HALF_OPEN first).
CBExecute ==
  /\ inflight < MaxInFlight
  /\ LET r == CBExecuteHead(cbClass, cb, cbCfg, now)
     IN  /\ cb' = r.cb
         /\ inflight' = IF r.invoke THEN inflight + 1 ELSE inflight
         /\ cbEvent' = Event("execute", IF r.invoke THEN "invoked" ELSE "rejected")
         /\ hist' = [hist EXCEPT
               !.hoSucc = IF cb.state # "HALF_OPEN" /\ r.cb.state = "HALF_OPEN"
                          THEN 0 ELSE @,
               !.hoFail = IF cb.state # "HALF_OPEN" /\ r.cb.state = "HALF_OPEN"
                          THEN 0 ELSE @,
               !.sinceReset = Undefined,
               !.servedAfter = hist.sinceReset]
  /\ UNCHANGED <<cbClass, cbCfg, now>>
  /\ UNCHANGED notCB

\* An invoked operation resolves: the continuation runs onSuccess.
CBSucceed ==
  /\ inflight > 0
  /\ cb.successCount < MaxCount
  /\ cb' = CBOnSuccess(cbClass, cb, now)
  /\ inflight' = inflight - 1
  /\ cbEvent' = Event("success", "none")
  /\ hist' = [hist EXCEPT
        !.run = 0,
        !.hoSucc = IF cb.state = "HALF_OPEN" THEN @ + 1 ELSE @,
        !.servedAfter = Undefined]
  /\ UNCHANGED <<cbClass, cbCfg, now>>
  /\ UNCHANGED notCB

\* An invoked operation rejects: the continuation runs onFailure.
CBFail ==
  /\ inflight > 0
  /\ cb.failureCount < MaxCount
  /\ cb' = CBOnFailure(cbClass, cb, cbCfg, now)
  /\ inflight' = inflight - 1
  /\ cbEvent' = Event("failure", "none")
  /\ hist' = [hist EXCEPT
        !.run = @ + 1,
        !.tripAt = IF hist.run + 1 >= cbCfg.failureThreshold THEN now ELSE @,
        !.openedAt = IF cb.state # "OPEN" /\ cb'.state = "OPEN" THEN now ELSE @,
        !.lastFailAt = now,
        !.hoFailAt = IF cb.state = "HALF_OPEN" THEN now ELSE @,
        !.hoFail = IF cb.state = "HALF_OPEN" /\ cb'.state = "HALF_OPEN"
                   THEN @ + 1 ELSE 0,
        !.sinceReset = IF @ = Undefined THEN @ ELSE @ + 1,
        !.servedAfter = Undefined]
  /\ UNCHANGED <<cbClass, cbCfg, now>>
  /\ UNCHANGED notCB

\* reset(), the administrative override; in-flight operations stay in flight.
CBReset ==
  /\ cb' = CBResetTo(cbClass, cb)
  /\ cbEvent' = Event("reset", "none")
  /\ hist' = [HistInit EXCEPT !.sinceReset = 0]
  /\ UNCHANGED <<cbClass, cbCfg, now, inflight>>
  /\ UNCHANGED notCB

\* Time passes.
CBTick ==
  /\ now < MaxTime
  /\ now' = now + 1
  /\ cbEvent' = Event("tick", "none")
  /\ hist' = [hist EXCEPT !.servedAfter = Undefined]
  /\ UNCHANGED <<cbClass, cbCfg, cb, inflight>>
  /\ UNCHANGED notCB

CBNext == CBExecute \/ CBSucceed \/ CBFail \/ CBReset \/ CBTick

SpecCB == CBInit /\ [][CBNext]_vars

(***************************************************************************)
(* One RetryPolicy.execute call.  The operation settles as it likes on     *)
(* every attempt: with any value, or with any error.                       *)
(***************************************************************************)
RPInit ==
  /\ MGParked
  /\ CAParked
  /\ TOParked
  /\ RLParked
  /\ CBParked
  /\ BHParked
  /\ rpClass \in Classes
  /\ rpCfg \in RetryConfigs(rpClass)
  /\ rpPred \in (IF rpClass = "pat" THEN Predicates ELSE {NoPredicate})
  /\ rp = RPIdle

\* What a step adds to the history: an invocation when it ends at an await
\* of the operation, a sleep when it ends at an await of sleep.
Noted(r) ==
  [r EXCEPT !.invocations = IF r.pc = "running" THEN @ + 1 ELSE @,
            !.sleeps = IF r.pc = "sleeping" THEN @ + 1 ELSE @]

\* execute() is called.
RPCall ==
  /\ rp.pc = "idle"
  /\ rp' = Noted(RetryStart(rpClass, rpCfg, rp))
  /\ UNCHANGED <<rpClass, rpCfg, rpPred>>
  /\ UNCHANGED notRP

\* The attempt in flight resolves.
RPResolve ==
  /\ rp.pc = "running"
  /\ \E v \in Values :
       rp' = [Noted(RetryOnResolve(rpClass, rp, v)) EXCEPT !.returned = v]
  /\ UNCHANGED <<rpClass, rpCfg, rpPred>>
  /\ UNCHANGED notRP

\* The attempt in flight rejects.
RPReject ==
  /\ rp.pc = "running"
  /\ \E e \in Errors : \E j \in RetryJitter10(rpClass, rpCfg, rp) :
       rp' = [Noted(RetryOnReject(rpClass, rpCfg, rpPred, rp, e, j))
                EXCEPT !.thrown = e, !.failed = @ + 1]
  /\ UNCHANGED <<rpClass, rpCfg, rpPred>>
  /\ UNCHANGED notRP

\* The sleep's timer fires.
RPWake ==
  /\ rp.pc = "sleeping"
  /\ rp' = Noted(RetryOnWake(rpClass, rpCfg, rp))
  /\ UNCHANGED <<rpClass, rpCfg, rpPred>>
  /\ UNCHANGED notRP

RPNext == RPCall \/ RPResolve \/ RPReject \/ RPWake

SpecRetry == RPInit /\ [][RPNext]_vars

\* The operation always settles and timers fire.
SpecRetryLive == RPInit /\ [][RPNext]_vars /\ WF_vars(RPNext)

(***************************************************************************)
(* Callers of one Bulkhead.  Every operation run settles as it likes,      *)
(* except the no-op, which resolves.                                       *)
(***************************************************************************)
\* History of a call: where it is (queued, running, settled), whether it
\* was ever queued, how often its own operation was invoked and when it
\* left the queue (as a count of the dequeues so far).
CallRecord(where, result) ==
  [st |-> where, wasQueued |-> where = "queued", invoked |-> 0,
   result |-> result, dequeuedAs |-> 0]

\* The history after a step that settled the set of runs `done` with
\* `result`, started the runs `started` and left the queue as in b.
NotedCalls(calls, b, done, result, started) ==
  LET left == Cardinality({j \in DOMAIN calls : calls[j].dequeuedAs > 0})
  IN  [j \in DOMAIN calls |->
        LET isDone == \E f \in done : f.caller = j
            isStarted == \E f \in started : f.caller = j
            c0 == calls[j]
            c1 == IF isDone THEN [c0 EXCEPT !.st = "settled", !.result = result]
                  ELSE c0
            c2 == IF isStarted THEN [c1 EXCEPT !.st = "running"] ELSE c1
            c3 == IF c0.st = "queued" /\ j \notin Queued(b)
                  THEN [c2 EXCEPT !.dequeuedAs = left + 1] ELSE c2
        IN  [c3 EXCEPT !.invoked =
               @ + Cardinality({f \in started : f.op = j})]]

BHInit ==
  /\ MGParked
  /\ CAParked
  /\ TOParked
  /\ RLParked
  /\ CBParked
  /\ RPParked
  /\ bhClass \in Classes
  /\ bhCfg \in BulkheadConfigs(bhClass)
  /\ bh = BulkheadInit
  /\ bhRuns = {}
  /\ bhCalls = <<>>

\* execute(operation): run at once, queued, or rejected.
BHExecute ==
  /\ Len(bhCalls) < MaxCalls
  /\ LET i == Len(bhCalls) + 1
         r == BulkheadExecute(bhClass, bh, bhCfg, i)
         where == IF i \in Queued(r.bh) THEN "queued"
                  ELSE IF \E f \in r.started : f.caller = i THEN "running"
                  ELSE "settled"
         rec == CallRecord(where, IF where = "settled" THEN BulkheadFull
                                  ELSE Pending)
     IN  /\ bh' = r.bh
         /\ bhRuns' = bhRuns \cup r.started
         /\ bhCalls' = NotedCalls(Append(bhCalls, rec), r.bh, {}, Pending,
                                  r.started)
  /\ UNCHANGED <<bhClass, bhCfg>>
  /\ UNCHANGED notBH

\* The operation a run awaits settles: the caller is resolved or rejected
\* with its outcome, the slot is released and the queue is looked at.
BHSettle ==
  /\ \E f \in bhRuns :
       \E kind \in (IF f.op = NoOp THEN {"resolved"} ELSE {"resolved", "rejected"}) :
         LET r == BulkheadRunFinally(bhClass, bh, bhCfg)
         IN  /\ bh' = r.bh
             /\ bhRuns' = (bhRuns \ {f}) \cup r.started
             /\ bhCalls' = NotedCalls(bhCalls, r.bh, {f}, Outcome(kind, f.op),
                                      r.started)
  /\ UNCHANGED <<bhClass, bhCfg>>
  /\ UNCHANGED notBH

BHNext == BHExecute \/ BHSettle

SpecBulkhead == BHInit /\ [][BHNext]_vars

\* Every operation awaited settles.
SpecBulkheadLive == BHInit /\ [][BHNext]_vars /\ WF_vars(BHSettle)

(***************************************************************************)
(* Callers of one RateLimiter, on a clock that never goes back.            *)
(***************************************************************************)
RLInit ==
  /\ MGParked
  /\ CAParked
  /\ TOParked
  /\ CBParked
  /\ RPParked
  /\ BHParked
  /\ rlCfg \in [maxRequests : 0..MaxRequests, windowMs : 1..MaxWindowMs]
  /\ rl = RateLimiterInit
  /\ rlLog = <<>>

RLAcquire ==
  /\ Len(rlLog) < MaxAcquires
  /\ LET r == PatAcquire(rl, rlCfg, now)
     IN  /\ rl' = r.rl
         /\ rlLog' = Append(rlLog, [at |-> now, ok |-> r.ok, wait |-> r.wait])
  /\ UNCHANGED <<rlCfg, now>>
  /\ UNCHANGED notRL

RLTick ==
  /\ now < MaxTime
  /\ now' = now + 1
  /\ UNCHANGED rlVars
  /\ UNCHANGED notRL

RLNext == RLAcquire \/ RLTick

SpecRateLimiter == RLInit /\ [][RLNext]_vars

(***************************************************************************)
(* Callers of one timeout guard.  The operation settles when it likes,     *)
(* also after the timer; the timer fires once its delay has passed.        *)
(***************************************************************************)
\* opSeq and timerSeq say which of the two happened first (0: not yet),
\* opEarly whether the operation settled strictly before the deadline;
\* settles counts the changes of the caller's promise.
GuardedCall(deadline) ==
  [deadline |-> deadline, opEarly |-> FALSE, opSeq |-> 0, timerSeq |-> 0,
   opOutcome |-> Pending, promise |-> Pending, settles |-> 0]

Seq2(c) == (IF c.opSeq > 0 THEN 1 ELSE 0) + (IF c.timerSeq > 0 THEN 1 ELSE 0) + 1

Raced(c, outcome) ==
  LET p == RaceSettle(c.promise, outcome)
  IN  [c EXCEPT !.promise = p,
                !.settles = IF p = c.promise THEN @ ELSE @ + 1]

TOInit ==
  /\ MGParked
  /\ CAParked
  /\ CBParked
  /\ RPParked
  /\ BHParked
  /\ RLParked
  /\ toClass \in Classes
  /\ toCfg \in TimeoutConfigs(toClass)
  /\ toCalls = <<>>

\* execute(operation): the timer is set and the operation invoked.
TOExecute ==
  /\ Len(toCalls) < MaxGuarded
  /\ LET r == TimeoutExecute(toClass, toCfg, now)
     IN  /\ r.deadline <= MaxTime
         /\ toCalls' = Append(toCalls, GuardedCall(r.deadline))
  /\ UNCHANGED <<toClass, toCfg, now>>
  /\ UNCHANGED notTO

\* The operation of call i resolves or rejects.
TOOperationSettles ==
  /\ \E i \in DOMAIN toCalls, kind \in {"resolved", "rejected"} :
       /\ toCalls[i].opSeq = 0
       /\ toCalls' = [toCalls EXCEPT ![i] =
            Raced([toCalls[i] EXCEPT !.opSeq = Seq2(toCalls[i]),
                                     !.opEarly = now < toCalls[i].deadline,
                                     !.opOutcome = Outcome(kind, i)],
                  Outcome(kind, i))]
  /\ UNCHANGED <<toClass, toCfg, now>>
  /\ UNCHANGED notTO

\* The timer of call i fires.
TOTimerFires ==
  /\ \E i \in DOMAIN toCalls :
       /\ toCalls[i].timerSeq = 0
       /\ now >= toCalls[i].deadline
       /\ toCalls' = [toCalls EXCEPT ![i] =
            Raced([toCalls[i] EXCEPT !.timerSeq = Seq2(toCalls[i])],
                  TimedOut)]
  /\ UNCHANGED <<toClass, toCfg, now>>
  /\ UNCHANGED notTO

TOTick ==
  /\ now < MaxTime
  /\ now' = now + 1
  /\ UNCHANGED toVars
  /\ UNCHANGED notTO

TONext == TOExecute \/ TOOperationSettles \/ TOTimerFires \/ TOTick

SpecTimeout == TOInit /\ [][TONext]_vars

\* Time passes, and a timer that is due fires.
SpecTimeoutLive ==
  TOInit /\ [][TONext]_vars /\ WF_vars(TOTick) /\ WF_vars(TOTimerFires)

(***************************************************************************)
(* Callers of one CacheAside.  Get i hands in a fetchFunction that         *)
(* resolves with the value i, or rejects.                                  *)
(***************************************************************************)
\* since: the earlier gets on the key with no deletion of the key between
\* their start and the start of this one; found: what the Map held for the
\* key when the get started; thrown: what its fetchFunction rejected with;
\* error: what the get rejected with.
GetCall(key, t, st, fetched, value) ==
  [key |-> key, at |-> t, st |-> st, fetched |-> fetched, value |-> value,
   thrown |-> NoError, error |-> NoError,
   since |-> {h \in caIntact : caGets[h].key = key},
   found |-> IF ~MapHas(ca, key) THEN "absent"
             ELSE IF MapGet(ca, key).expiry <= t THEN "expired" ELSE "fresh"]

\* The gets still intact after the deletion of `keys`.
Removed(keys) == {h \in caIntact : caGets[h].key \notin keys}

CAInit ==
  /\ MGParked
  /\ CBParked
  /\ RPParked
  /\ BHParked
  /\ RLParked
  /\ TOParked
  /\ caCfg \in [ttlMs : 1..MaxTtlMs, maxSize : 0..MaxSize]
  /\ ca = <<>>
  /\ caGets = <<>>
  /\ caIntact = {}

\* get(key, fetchFunction) up to its return or its await.
CAGet ==
  /\ Len(caGets) < MaxGets
  /\ \E key \in Keys :
       LET r == PatCacheLookup(ca, key, now)
       IN  caGets' = Append(caGets,
             IF r.hit THEN GetCall(key, now, "returned", FALSE, r.data)
             ELSE GetCall(key, now, "fetching", TRUE, Undefined))
  /\ caIntact' = caIntact \cup {Len(caGets) + 1}
  /\ UNCHANGED <<caCfg, ca, now>>
  /\ UNCHANGED notCA

\* fetchFunction of get i resolves: the data is stored and returned.
CAFetchResolves ==
  /\ \E i \in DOMAIN caGets :
       /\ caGets[i].st = "fetching"
       /\ LET r == PatCacheSet(ca, caCfg, caGets[i].key, i, now)
          IN  /\ ca' = r.cache
              /\ caIntact' = Removed(r.evicted)
              /\ caGets' = [caGets EXCEPT ![i].st = "returned", ![i].value = i]
  /\ UNCHANGED <<caCfg, now>>
  /\ UNCHANGED notCA

\* fetchFunction of get i rejects: so does get.
CAFetchRejects ==
  /\ \E i \in DOMAIN caGets :
       /\ caGets[i].st = "fetching"
       /\ \E e \in FetchErrors :
            LET r == PatCacheFetchFailed(ca, caGets[i].key, e)
            IN  /\ ca' = r.cache
                /\ caIntact' = Removed(r.evicted)
                /\ caGets' = [caGets EXCEPT ![i].st = "rejected",
                                            ![i].thrown = e,
                                            ![i].error = r.error]
  /\ UNCHANGED <<caCfg, now>>
  /\ UNCHANGED notCA

CAInvalidate ==
  /\ \E key \in Keys :
       /\ MapHas(ca, key)
       /\ ca' = MapDelete(ca, key)
       /\ caIntact' = Removed({key})
  /\ UNCHANGED <<caCfg, caGets, now>>
  /\ UNCHANGED notCA

CAClear ==
  /\ ca # <<>>
  /\ ca' = <<>>
  /\ caIntact' = Removed({ca[n].key : n \in 1..Len(ca)})
  /\ UNCHANGED <<caCfg, caGets, now>>
  /\ UNCHANGED notCA

CATick ==
  /\ now < MaxTime
  /\ now' = now + 1
  /\ UNCHANGED caVars
  /\ UNCHANGED notCA

CANext ==
  CAGet \/ CAFetchResolves \/ CAFetchRejects \/ CAInvalidate \/ CAClear \/ CATick

SpecCache == CAInit /\ [][CANext]_vars

(***************************************************************************)
(* Callers of ResilienceManager.execute for one target.  Timers fire when  *)
(* they are due: time does not pass a timer that is due, nor a microtask.  *)
(***************************************************************************)
World == [calls |-> mgCalls, cb |-> cb, bh |-> bh]

Configs ==
  [layers |-> mgLayers, circuitBreaker |-> cbCfg, retry |-> rpCfg,
   timeout |-> toCfg, bulkhead |-> bhCfg]

\* The history of a step from breaker b to breaker b1.
MgNoted(calls, b, b1) ==
  [i \in DOMAIN calls |->
     [calls[i] EXCEPT !.tripped =
        IF calls[i].retry.pc \in {"running", "sleeping"}
        THEN @ \/ (b.state # "OPEN" /\ b1.state = "OPEN")
        ELSE FALSE]]

Becomes(w) == mgCalls' = MgNoted(w.calls, cb, w.cb) /\ cb' = w.cb /\ bh' = w.bh

MGInit ==
  /\ RLParked
  /\ CAParked
  /\ cbClass = "obs" /\ rpClass = "obs" /\ bhClass = "obs" /\ toClass = "obs"
  /\ mgLayers \in SUBSET Layers
  /\ cbCfg = [failureThreshold |-> 2, resetTimeout |-> 1]
  /\ rpCfg \in [maxAttempts : IF "retry" \in mgLayers THEN {1, 3} ELSE {1},
                initialDelay : {1}, maxDelay : {1},
                backoffMultiplier : {1}, retryableErrors : {{<<"a">>}}]
  /\ toCfg \in [response : IF "timeout" \in mgLayers /\ "retry" \notin mgLayers
                           THEN {1, 2} ELSE {1}]
  /\ bhCfg = [maxConcurrent |-> 1, maxQueue |-> 1]
  /\ cb = ObsInit
  /\ bh = BulkheadInit
  /\ mgCalls = <<>>
  /\ mgr = NoManager
  /\ now = StartTime
  /\ inflight = 0
  /\ cbEvent = Event("init", "none")
  /\ hist = HistInit
  /\ rpPred = NoPredicate
  /\ rp = RPIdle
  /\ bhRuns = {}
  /\ bhCalls = <<>>
  /\ toCalls = <<>>

\* execute(service, operation), up to the first await.
MGExecute ==
  /\ Len(mgCalls) < MaxManaged
  /\ Becomes(MgBulkheadExecute([World EXCEPT !.calls = Append(mgCalls, ManagedCall)],
                               Configs, Len(mgCalls) + 1, now))
  /\ UNCHANGED now
  /\ UNCHANGED notMG

\* The operation of call i resolves or rejects.
MGOperationSettles ==
  /\ \E i \in DOMAIN mgCalls :
       /\ mgCalls[i].op = "inflight"
       /\ \/ Becomes(MgOperationSettled(World, Configs, i, "resolved", NoError, now))
          \/ \E e \in OperationErrors :
               Becomes(MgOperationSettled(World, Configs, i, "rejected", e, now))
  /\ UNCHANGED now
  /\ UNCHANGED notMG

\* The sleep timer of call i fires.
MGWake ==
  /\ \E i \in DOMAIN mgCalls :
       /\ mgCalls[i].retry.pc = "sleeping"
       /\ now >= mgCalls[i].wakeAt
       /\ Becomes(MgWake(World, Configs, i, now))
  /\ UNCHANGED now
  /\ UNCHANGED notMG

\* The timeout timer of call i fires.
MGTimerFires ==
  /\ \E i \in DOMAIN mgCalls :
       /\ mgCalls[i].timer = "pending"
       /\ now >= mgCalls[i].deadline
       /\ Becomes(MgTimerFired(World, Configs, i, now))
  /\ UNCHANGED now
  /\ UNCHANGED notMG

\* The no-op run for dequeued call i is over.
MGNoOpSettles ==
  /\ \E i \in DOMAIN mgCalls :
       /\ mgCalls[i].slot = "noop"
       /\ Becomes(MgRunSettled(World, Configs, i, Outcome("resolved", NoOp), now))
  /\ UNCHANGED now
  /\ UNCHANGED notMG

MGTick ==
  /\ now < MaxTime
  /\ \A i \in DOMAIN mgCalls :
       /\ mgCalls[i].timer = "pending" => now < mgCalls[i].deadline
       /\ mgCalls[i].retry.pc = "sleeping" => now < mgCalls[i].wakeAt
       /\ mgCalls[i].slot # "noop"
  /\ now' = now + 1
  /\ UNCHANGED <<cb, bh, mgCalls>>
  /\ UNCHANGED notMG

MGNext ==
  MGExecute \/ MGOperationSettles \/ MGWake \/ MGTimerFires \/ MGNoOpSettles \/ MGTick

SpecManager == MGInit /\ [][MGNext]_vars

(***************************************************************************)
(* A ResilienceManager of resilience.ts with the targets "x" and "y".      *)
(***************************************************************************)
\* The layers a target is configured with.
TargetLayerSets == {{}, {"circuitBreaker"}, {"circuitBreaker", "timeout", "bulkhead"}}

TargetConfigs ==
  [layers : TargetLayerSets,
   circuitBreaker : {[failureThreshold |-> 1, resetTimeout |-> 1]},
   retry : {[maxAttempts |-> 1, initialDelay |-> 1, maxDelay |-> 1,
             backoffMultiplier |-> 1, retryableErrors |-> {}]},
   timeout : {[response |-> 1]},
   bulkhead : [maxConcurrent : {1}, maxQueue : {0, 1}]]

\* The error the targets' operations reject with.
TargetErrors == {e \in OperationErrors : e.name = <<"a">>}

\* The execute calls made so far, over all targets.
RECURSIVE CallsMade(_, _)
CallsMade(m, services) ==
  IF services = {} THEN 0
  ELSE LET s == CHOOSE q \in services : TRUE
       IN  Len(m.targets[s].calls) + CallsMade(m, services \ {s})

\* The configs Maps: a target without bulkhead has one configuration.
ManagerConfigs ==
  {configs \in [Services -> TargetConfigs] :
     \A s \in Services :
       "bulkhead" \notin configs[s].layers => configs[s].bulkhead.maxQueue = 0}

\* The component variables, which a manager with several targets leaves.
TGParked ==
  /\ CBParked
  /\ RPParked
  /\ BHParked
  /\ RLParked
  /\ TOParked
  /\ CAParked
  /\ mgLayers = {}
  /\ mgCalls = <<>>

TGInit ==
  /\ TGParked
  /\ \E configs \in ManagerConfigs : mgr = ObsManager(configs)

\* execute(service, operation), up to the first await.
TGExecute ==
  /\ CallsMade(mgr, Services) < MaxManaged
  /\ \E s \in Services : mgr' = MgrExecute(mgr, s, now)
  /\ UNCHANGED now
  /\ UNCHANGED notTG

\* The operation of call i of a service resolves or rejects.
TGOperationSettles ==
  /\ \E s \in Services :
       LET w == MgrComponents(mgr, s)
           g == mgr.configs[s]
       IN  \E i \in DOMAIN w.calls :
             /\ w.calls[i].op = "inflight"
             /\ \/ mgr' = MgrBecomes(mgr, s,
                             MgOperationSettled(w, g, i, "resolved", NoError, now))
                \/ \E e \in TargetErrors :
                     mgr' = MgrBecomes(mgr, s,
                              MgOperationSettled(w, g, i, "rejected", e, now))
  /\ UNCHANGED now
  /\ UNCHANGED notTG

\* The timeout timer of call i of a service fires.
TGTimerFires ==
  /\ \E s \in Services :
       LET w == MgrComponents(mgr, s)
       IN  \E i \in DOMAIN w.calls :
             /\ w.calls[i].timer = "pending"
             /\ now >= w.calls[i].deadline
             /\ mgr' = MgrBecomes(mgr, s,
                         MgTimerFired(w, mgr.configs[s], i, now))
  /\ UNCHANGED now
  /\ UNCHANGED notTG

\* The no-op run for dequeued call i of a service is over.
TGNoOpSettles ==
  /\ \E s \in Services :
       LET w == MgrComponents(mgr, s)
       IN  \E i \in DOMAIN w.calls :
             /\ w.calls[i].slot = "noop"
             /\ mgr' = MgrBecomes(mgr, s,
                         MgRunSettled(w, mgr.configs[s], i,
                                      Outcome("resolved", NoOp), now))
  /\ UNCHANGED now
  /\ UNCHANGED notTG

\* getServiceHealth(service)
TGGetServiceHealth ==
  /\ \E s \in Services :
       LET r == MgrGetServiceHealth(mgr, s, now)
       IN  mgr' = [r.mgr EXCEPT !.said = <<r.report>>]
  /\ UNCHANGED now
  /\ UNCHANGED notTG

\* getAllServiceHealth()
TGGetAllServiceHealth ==
  /\ LET r == MgrGetAllServiceHealth(mgr, now)
     IN  mgr' = [r.mgr EXCEPT !.said = r.reports]
  /\ UNCHANGED now
  /\ UNCHANGED notTG

TGTick ==
  /\ now < StartTime + MaxTargetTicks
  /\ \A s \in Services : \A i \in DOMAIN mgr.targets[s].calls :
       LET c == mgr.targets[s].calls[i]
       IN  /\ c.timer = "pending" => now < c.deadline
           /\ c.slot # "noop"
  /\ now' = now + 1
  /\ mgr' = [mgr EXCEPT !.said = <<>>]
  /\ UNCHANGED notTG

TGNext ==
  \/ TGExecute
  \/ TGOperationSettles
  \/ TGTimerFires
  \/ TGNoOpSettles
  \/ TGTick

SpecTargets == TGInit /\ [][TGNext]_vars

\* The same manager, asked for health reports between the steps of its
\* execute calls; the second target has no timeout manager or bulkhead.
THInit ==
  /\ TGParked
  /\ \E configs \in ManagerConfigs :
       /\ "bulkhead" \notin configs[ServiceOrder[2]].layers
       /\ mgr = ObsManager(configs)

THNext ==
  \/ TGExecute
  \/ TGOperationSettles
  \/ TGTimerFires
  \/ TGNoOpSettles
  \/ TGGetServiceHealth
  \/ TGGetAllServiceHealth
  \/ TGTick

SpecHealth == THInit /\ [][THNext]_vars

(***************************************************************************)
(* One component standing alone, called by concurrent callers: a circuit   *)
(* breaker of either class, or a bulkhead of either class.  mgLayers names *)
(* the component there is.                                                 *)
(***************************************************************************)
HasComponent(layer) == layer \in mgLayers

ALInit ==
  /\ CAParked
  /\ TOParked
  /\ RLParked
  /\ RPParked
  /\ mgCalls = <<>>
  /\ mgr = NoManager
  /\ \/ /\ mgLayers = {"circuitBreaker"}
        /\ BHParked
        /\ cbClass \in Classes
        /\ cbCfg \in [failureThreshold : 1..MaxThreshold,
                      resetTimeout : 1..MaxResetTimeout]
        /\ cb = CBInitial(cbClass)
        /\ now = StartTime
        /\ inflight = 0
        /\ cbEvent = Event("init", "none")
        /\ hist = HistInit
     \/ /\ mgLayers = {"bulkhead"}
        /\ CBParked
        /\ bhClass \in Classes
        /\ bhCfg \in BulkheadConfigs(bhClass)
        /\ bh = BulkheadInit
        /\ bhRuns = {}
        /\ bhCalls = <<>>

ALBreakerExecute == HasComponent("circuitBreaker") /\ CBExecute
ALBreakerSucceed == HasComponent("circuitBreaker") /\ CBSucceed
ALBreakerFail == HasComponent("circuitBreaker") /\ CBFail
ALBreakerReset == HasComponent("circuitBreaker") /\ CBReset
ALBreakerTick == HasComponent("circuitBreaker") /\ CBTick
ALBulkheadExecute == HasComponent("bulkhead") /\ BHExecute
ALBulkheadSettle == HasComponent("bulkhead") /\ BHSettle

ALNext ==
  \/ ALBreakerExecute
  \/ ALBreakerSucceed
  \/ ALBreakerFail
  \/ ALBreakerReset
  \/ ALBreakerTick
  \/ ALBulkheadExecute
  \/ ALBulkheadSettle

SpecAlone == ALInit /\ [][ALNext]_vars

(***************************************************************************)
(* Claims about the circuit breakers, checked under SpecCB.                *)
(***************************************************************************)
Threshold == cbCfg.failureThreshold
ResetTimeout == cbCfg.resetTimeout

\* C1: when a failure is recorded that completes failureThreshold failures
\* in a row, the breaker is OPEN after it; and every execute call made less
\* than resetTimeout after that failure (no reset() in between) is rejected
\* and invokes nothing (the number of operations in flight is unchanged).
C1_TripOpensAndRejects ==
  [][ /\ (cbEvent'.op = "failure" /\ hist'.run >= Threshold
            => cb'.state = "OPEN")
      /\ (cbEvent'.op = "execute" /\ hist.tripAt # Undefined
            /\ now < hist.tripAt + ResetTimeout
            => cbEvent'.result = "rejected" /\ inflight' = inflight /\ cb' = cb)
    ]_vars

\* C1 witness: a call rejected inside the window of a trip that took two
\* failures in a row.
C1_Witness ==
  /\ cbEvent = Event("execute", "rejected")
  /\ Threshold = 2
  /\ hist.run = 2
  /\ hist.tripAt # Undefined
  /\ now < hist.tripAt + ResetTimeout

\* C2: the breaker leaves HALF_OPEN for CLOSED (other than by reset()) only
\* with the third success recorded in HALF_OPEN since it was entered, and
\* failureCount is 0 at that moment.
C2_ClosesAfterThreeSuccesses ==
  [][ cb.state = "HALF_OPEN" /\ cb'.state = "CLOSED" /\ cbEvent'.op # "reset"
        => hist'.hoSucc >= 3 /\ cb'.failureCount = 0
    ]_vars

\* C3: an execute call on an OPEN breaker, made resetTimeout or more after
\* it opened with no failure recorded since, sets HALF_OPEN and invokes the
\* operation; and no step but reset() takes the breaker out of OPEN while
\* less than resetTimeout has passed since it opened.
C3_HalfOpenAfterTimeout ==
  [][ /\ (cb.state = "OPEN" /\ cbEvent'.op = "execute"
            /\ hist.lastFailAt = hist.openedAt
            /\ now >= hist.openedAt + ResetTimeout
            => cb'.state = "HALF_OPEN" /\ cbEvent'.result = "invoked"
               /\ inflight' = inflight + 1)
      /\ (cb.state = "OPEN" /\ cbEvent'.op # "reset"
            /\ now' < hist.openedAt + ResetTimeout
            => cb'.state = "OPEN")
    ]_vars

\* C3 witness: a call admitted in HALF_OPEN exactly when the timeout ran out.
C3_Witness ==
  /\ cbEvent = Event("execute", "invoked")
  /\ cb.state = "HALF_OPEN"
  /\ hist.lastFailAt = hist.openedAt
  /\ hist.openedAt # Undefined
  /\ now = hist.openedAt + ResetTimeout

\* C4: a failure recorded in HALF_OPEN leaves the breaker OPEN, and every
\* execute call made less than resetTimeout after that failure (no reset()
\* in between) is rejected and invokes nothing.
C4_HalfOpenFailureReopens ==
  [][ /\ (cb.state = "HALF_OPEN" /\ cbEvent'.op = "failure"
            => cb'.state = "OPEN")
      /\ (cbEvent'.op = "execute" /\ hist.hoFailAt # Undefined
            /\ now < hist.hoFailAt + ResetTimeout
            => cbEvent'.result = "rejected" /\ inflight' = inflight /\ cb' = cb)
    ]_vars

\* C4 witness: a call rejected inside the window restarted by a HALF_OPEN
\* failure, later than the window of the trip itself.
C4_Witness ==
  /\ cbEvent = Event("execute", "rejected")
  /\ hist.hoFailAt # Undefined
  /\ hist.openedAt = hist.hoFailAt
  /\ hist.tripAt < hist.hoFailAt
  /\ now < hist.hoFailAt + ResetTimeout

\* C5: a success recorded in CLOSED leaves failureCount = 0, and the breaker
\* goes from CLOSED to OPEN only with a failure that completes
\* failureThreshold failures in a row.
C5_ClosedSuccessClearsFailures ==
  [][ /\ (cb.state = "CLOSED" /\ cbEvent'.op = "success"
            => cb'.failureCount = 0)
      /\ (cb.state = "CLOSED" /\ cb'.state = "OPEN"
            => hist'.run >= Threshold)
    ]_vars

\* What reset() leaves: the fields as constructed.
Cleared ==
  /\ cb.state = "CLOSED"
  /\ cb.failureCount = 0
  /\ cb.successCount = 0
  /\ cb.lastFailureTime = (IF cbClass = "obs" THEN Undefined ELSE 0)
  /\ cb.lastSuccessTime = Undefined
  /\ cb.nextRetryTime = Undefined

\* C6 as stated: reset() leaves the fields cleared, and the first execute
\* call after a reset() invokes the operation.
C6_ResetThenNextCallInvokes ==
  /\ (cbEvent.op = "reset" => Cleared)
  /\ (cbEvent.op = "execute" /\ hist.servedAfter # Undefined
        => cbEvent.result = "invoked")

\* C6 amended: reset() leaves the fields cleared, and the first execute call
\* after a reset() invokes the operation provided fewer than
\* failureThreshold failures (of operations still in flight) were recorded
\* between the reset() and the call.
C6_ResetClearsAndAdmits ==
  /\ (cbEvent.op = "reset" => Cleared)
  /\ (cbEvent.op = "execute" /\ hist.servedAfter # Undefined
        /\ hist.servedAfter < Threshold
        => cbEvent.result = "invoked")

\* C6 witness: the first call after a reset() is admitted although a
\* failure of an operation in flight was recorded in between.
C6_Witness ==
  /\ cbEvent = Event("execute", "invoked")
  /\ hist.servedAfter = 1
  /\ cb.failureCount = 1

(***************************************************************************)
(* Claims about the retry policies, checked under SpecRetry, and under     *)
(* SpecRetryLive where termination is claimed.                             *)
(***************************************************************************)
BaseDelay == IF rpClass = "obs" THEN rpCfg.initialDelay ELSE rpCfg.baseDelay

RPSettled == rp.pc \in {"resolved", "rejected"}

\* The step records a failed attempt.
RejectStep == rp'.failed = rp.failed + 1

\* C7: execute settles; the operation is invoked at most maxAttempts times;
\* a call that resolves does so with the value of the one attempt that
\* succeeded, after exactly (failed attempts + 1) invocations; a call whose
\* maxAttempts attempts all failed rejects with the error of the last one;
\* and a settled call does nothing more.
C7_BoundedAttempts ==
  /\ [](/\ rp.invocations <= rpCfg.maxAttempts
        /\ (rp.pc = "resolved"
              => /\ rp.result = [kind |-> "resolved", value |-> rp.returned,
                                 error |-> NoError]
                 /\ rp.failed < rpCfg.maxAttempts
                 /\ rp.invocations = rp.failed + 1)
        /\ (rp.pc = "rejected" /\ rp.failed = rpCfg.maxAttempts
              => /\ rp.result = [kind |-> "rejected", value |-> "none",
                                 error |-> rp.thrown]
                 /\ rp.invocations = rpCfg.maxAttempts))
  /\ [][RPSettled => rp' = rp]_vars
  /\ <>RPSettled

\* C7 witness: three attempts, all failed, the last error handed on.
C7_Witness ==
  /\ rp.pc = "rejected"
  /\ rp.failed = 3
  /\ rp.invocations = 3
  /\ rpCfg.maxAttempts = 3
  /\ rp.result.error = rp.thrown

\* The retry test says no: shouldRetry(error) is false (part_000), no
\* retryableErrors pattern is contained in the message or the name
\* (resilience.ts).
NonRetryable(e) ==
  IF rpClass = "pat"
  THEN rpPred.given /\ e.name \notin rpPred.accepts
  ELSE \A p \in rpCfg.retryableErrors :
         ~Includes(e.message, p) /\ ~Includes(e.name, p)

\* C8: an attempt failing with a non-retryable error ends the call at once:
\* rejected with that error, no sleep and no further invocation; if it was
\* the first attempt the operation was invoked exactly once.
C8_NonRetryableStops ==
  [][ /\ (RejectStep /\ NonRetryable(rp'.thrown)
            => /\ rp'.pc = "rejected"
               /\ rp'.result = [kind |-> "rejected", value |-> "none",
                                error |-> rp'.thrown]
               /\ rp'.sleeps = rp.sleeps
               /\ rp'.invocations = rp.invocations
               /\ (rp'.failed = 1 => rp'.invocations = 1))
      /\ (rp.pc = "rejected" => rp' = rp)
    ]_vars

\* C8 witness: a first attempt, with attempts to spare, failing with a
\* non-retryable error.
C8_Witness ==
  /\ rp.pc = "rejected"
  /\ rp.failed = 1
  /\ rp.invocations = 1
  /\ rpCfg.maxAttempts > 1
  /\ NonRetryable(rp.thrown)
  /\ rp.result.error = rp.thrown

\* C9: the sleep after the n-th failed attempt is at least d and at most
\* 1.1 * d, d = min(baseDelay * backoffMultiplier^(n-1), maxDelay).
C9_SleepWithinJitter ==
  rp.pc = "sleeping"
    => LET d == Min(BaseDelay * Pow(rpCfg.backoffMultiplier, rp.attempt - 1),
                    rpCfg.maxDelay)
       IN  10 * d <= rp.sleep10 /\ rp.sleep10 <= 11 * d

\* The error matches none of the configured retryable kinds; part_000's
\* RetryPolicy has no such configuration, so there every error matches none.
MatchesNoConfiguredKind(e) ==
  IF rpClass = "obs"
  THEN \A p \in rpCfg.retryableErrors :
         ~Includes(e.message, p) /\ ~Includes(e.name, p)
  ELSE TRUE

\* C10: with no predicate supplied, an attempt failing with an error that
\* matches none of the configured retryable kinds is not retried: the call
\* rejects with that error and the operation is not invoked again.
C10_UnmatchedNotRetriedByDefault ==
  [][ RejectStep /\ ~rpPred.given /\ MatchesNoConfiguredKind(rp'.thrown)
        => /\ rp'.pc = "rejected"
           /\ rp'.result.error = rp'.thrown
           /\ rp'.sleeps = rp.sleeps
    ]_vars

(***************************************************************************)
(* Claims about the bulkheads.                                             *)
(***************************************************************************)
\* The calls an operation of which has completed, and the calls the
\* bulkhead turned away.
Completed == {j \in DOMAIN bhCalls : bhCalls[j].result.kind \in {"resolved", "rejected"}}
TurnedAway == {j \in DOMAIN bhCalls : bhCalls[j].result = BulkheadFull}

\* C11: for each Bulkhead class, whatever the interleaving of execute calls
\* and completions, 0 <= running <= maxConcurrent in every reachable state.
C11_RunningWithinLimit ==
  /\ 0 <= bh.running
  /\ bh.running <= bhCfg.maxConcurrent

C11_Witness ==
  /\ bhCfg.maxConcurrent >= 2
  /\ bh.running = bhCfg.maxConcurrent
  /\ Len(bh.queue) > 0
  /\ Completed # {}

\* The execute step of call i, as the caller sees it.
ExecuteStep == Len(bhCalls') = Len(bhCalls) + 1

\* C12: the Bulkhead of resilience.ts admits an execute call at once iff
\* running < maxConcurrent at the call; otherwise it queues it iff the
\* queue holds fewer than maxQueue waiters; otherwise it rejects it at once
\* with the bulkhead-full error and does not invoke its operation.  So the
\* queue never holds more than maxQueue waiters, and with maxConcurrent = 2
\* and maxQueue = 1 four calls with no completion in between leave two
\* running, one queued and one rejected.
C12_AdmitQueueOrReject ==
  /\ [][(bhClass = "obs" /\ ExecuteStep) =>
          LET i == Len(bhCalls')
              me == bhCalls'[i]
              admitted == me.st = "running" /\ me.invoked = 1
                          /\ Run(i, i) \in bhRuns' /\ i \notin Queued(bh')
              queued == me.st = "queued" /\ me.invoked = 0
                        /\ bh'.queue = Append(bh.queue, [caller |-> i])
                        /\ bhRuns' = bhRuns
              rejected == me.st = "settled" /\ me.result = BulkheadFull
                          /\ me.invoked = 0 /\ bhRuns' = bhRuns /\ bh' = bh
          IN  /\ admitted <=> bh.running < bhCfg.maxConcurrent
              /\ queued <=> /\ ~(bh.running < bhCfg.maxConcurrent)
                            /\ Len(bh.queue) < bhCfg.maxQueue
              /\ rejected <=> /\ ~(bh.running < bhCfg.maxConcurrent)
                              /\ ~(Len(bh.queue) < bhCfg.maxQueue)]_vars
  /\ [](bhClass = "obs" => Len(bh.queue) <= bhCfg.maxQueue)
  /\ []((/\ bhClass = "obs"
         /\ bhCfg = [maxConcurrent |-> 2, maxQueue |-> 1]
         /\ Len(bhCalls) = 4
         /\ Completed = {})
        => /\ bh.running = 2
           /\ Len(bh.queue) = 1
           /\ Cardinality(TurnedAway) = 1)

C12_Witness ==
  /\ bhClass = "obs"
  /\ bhCfg = [maxConcurrent |-> 2, maxQueue |-> 1]
  /\ Len(bhCalls) = 4
  /\ Completed = {}
  /\ bhCalls[4].result = BulkheadFull
  /\ Queued(bh) = {3}

\* C13: for each Bulkhead class, a caller that was queued and has been
\* dequeued is admitted with its own operation: that operation is invoked
\* exactly once, and the caller's promise settles with that operation's
\* result or error.
C13_DequeuedRunsOwnOperation ==
  \A j \in DOMAIN bhCalls :
    (bhCalls[j].wasQueued /\ bhCalls[j].st # "queued") =>
      /\ bhCalls[j].invoked = 1
      /\ bhCalls[j].st = "settled" =>
           /\ bhCalls[j].result.kind \in {"resolved", "rejected"}
           /\ bhCalls[j].result.of = j

\* C14: for each Bulkhead class, waiters leave the queue in the order they
\* entered it, whatever the interleaving of completions.  Calls are
\* numbered in the order they were made, which is the order they were
\* pushed in.
C14_Fifo ==
  \A i, j \in DOMAIN bhCalls :
    (/\ i < j
     /\ bhCalls[i].wasQueued
     /\ bhCalls[j].wasQueued
     /\ bhCalls[j].dequeuedAs > 0)
    => /\ bhCalls[i].dequeuedAs > 0
       /\ bhCalls[i].dequeuedAs < bhCalls[j].dequeuedAs

C14_Witness ==
  \E i, j \in DOMAIN bhCalls :
    /\ i < j
    /\ bhCalls[i].wasQueued /\ bhCalls[j].wasQueued
    /\ bhCalls[i].dequeuedAs = 1
    /\ bhCalls[j].dequeuedAs = 2
    /\ bhCalls[j].st = "settled"

(***************************************************************************)
(* Claims about the rate limiter.                                          *)
(***************************************************************************)
\* The acquires among the first n - 1 that succeeded in (t - windowMs, t].
SucceededIn(log, n, t) ==
  {j \in 1..(n - 1) : log[j].ok /\ t - rlCfg.windowMs < log[j].at /\ log[j].at <= t}

AcquireStep == Len(rlLog') = Len(rlLog) + 1

SetMin(S) == CHOOSE x \in S : \A y \in S : x <= y

\* C15: on a non-decreasing clock, for every instant t the acquires that
\* succeeded in (t - windowMs, t] number at most maxRequests; an acquire
\* succeeds iff fewer than maxRequests succeeded in the window ending at
\* it, so the first maxRequests in an empty window succeed and the next
\* one in the same window fails.
C15_AtMostMaxRequestsPerWindow ==
  /\ [](\A t \in StartTime..now :
          Cardinality(SucceededIn(rlLog, Len(rlLog) + 1, t)) <= rlCfg.maxRequests)
  /\ [][AcquireStep =>
          (rlLog'[Len(rlLog')].ok <=>
             Cardinality(SucceededIn(rlLog, Len(rlLog) + 1, now)) < rlCfg.maxRequests)]_vars

C15_Witness ==
  /\ rlCfg.maxRequests = 2
  /\ \E n \in DOMAIN rlLog :
       /\ n >= 3
       /\ rlLog[n - 2].ok /\ rlLog[n - 1].ok /\ ~rlLog[n].ok
       /\ SucceededIn(rlLog, n - 2, rlLog[n - 2].at) = {}
       /\ rlLog[n].at - rlLog[n - 2].at < rlCfg.windowMs

\* C16: for every configuration with maxRequests >= 0 and windowMs >= 1,
\* the wait time an acquire fails with equals windowMs - (now - the oldest
\* recorded timestamp still in the window), and 0 < wait <= windowMs.
C16_WaitTimeWithinWindow ==
  \A n \in DOMAIN rlLog :
    ~rlLog[n].ok =>
      LET inWindow == {rlLog[j].at : j \in SucceededIn(rlLog, n, rlLog[n].at)}
      IN  /\ inWindow # {}
          /\ rlLog[n].wait = rlCfg.windowMs - (rlLog[n].at - SetMin(inWindow))
          /\ 0 < rlLog[n].wait
          /\ rlLog[n].wait <= rlCfg.windowMs

\* The moments the failed acquires since the last success told their
\* callers to come back at.
DueTimes ==
  {rlLog[n].at + rlLog[n].wait :
     n \in {m \in DOMAIN rlLog : /\ ~rlLog[m].ok
                                 /\ rlLog[m].wait # NaN
                                 /\ \A j \in m..Len(rlLog) : ~rlLog[j].ok}}

\* C17: if an acquire fails at time t reporting wait w and no acquire
\* succeeds in between, an acquire at any time >= t + w succeeds; a
\* rejected acquire is not recorded, so repeated rejected calls never
\* postpone that moment.
C17_AcquireSucceedsAfterWait ==
  /\ [][(AcquireStep /\ \E d \in DueTimes : now >= d)
          => rlLog'[Len(rlLog')].ok]_vars
  /\ [][(AcquireStep /\ ~rlLog'[Len(rlLog')].ok)
          => /\ Len(rl'.requests) <= Len(rl.requests)
             /\ \A d \in DueTimes : DueTimes' = {d}]_vars
  /\ [](Len(rl.requests) =
          Cardinality(SucceededIn(rlLog, Len(rlLog) + 1,
                                  IF rlLog = <<>> THEN now
                                  ELSE rlLog[Len(rlLog)].at)))

C17_Witness ==
  \E n \in DOMAIN rlLog :
    /\ n + 2 <= Len(rlLog)
    /\ ~rlLog[n].ok /\ ~rlLog[n + 1].ok /\ rlLog[n + 2].ok
    /\ rlLog[n + 1].at > rlLog[n].at
    /\ rlLog[n + 2].at = rlLog[n].at + rlLog[n].wait

(***************************************************************************)
(* Claims about the timeout guards.                                        *)
(***************************************************************************)
OperationFirst(c) == c.opSeq = 1
TimerFirst(c) == c.timerSeq = 1

\* C18: for each timeout guard, the caller's promise settles exactly once;
\* if the operation settles strictly before the timeout the caller gets
\* the operation's result or error, and if the timer fires first the
\* caller gets the timeout error.
C18_RaceSettlesOnce ==
  /\ [](\A i \in DOMAIN toCalls :
          LET c == toCalls[i]
          IN  /\ c.settles <= 1
              /\ c.settles = 1 <=> (c.opSeq > 0 \/ c.timerSeq > 0)
              /\ c.settles = 1 <=> c.promise # Pending
              /\ (c.opSeq > 0 /\ c.opEarly) => OperationFirst(c)
              /\ OperationFirst(c) =>
                   /\ c.promise = c.opOutcome
                   /\ c.promise.of = i
                   /\ c.promise.kind \in {"resolved", "rejected"}
              /\ TimerFirst(c) => c.promise = TimedOut)
  /\ [][\A i \in DOMAIN toCalls :
          toCalls[i].promise # Pending => toCalls'[i].promise = toCalls[i].promise]_vars
  /\ \A i \in 1..MaxGuarded :
       [](Len(toCalls) >= i => <>(Len(toCalls) >= i /\ toCalls[i].settles = 1))

C18_Witness ==
  /\ Len(toCalls) = 2
  /\ OperationFirst(toCalls[1]) /\ toCalls[1].timerSeq = 2
  /\ toCalls[1].opEarly
  /\ TimerFirst(toCalls[2]) /\ toCalls[2].opSeq = 2

(***************************************************************************)
(* Claims about the cache.                                                 *)
(***************************************************************************)
\* Get j started less than ttl after get i, on the same key, and the key
\* was not deleted in between.
WithinTtl(i, j) ==
  /\ i < j
  /\ caGets[i].key = caGets[j].key
  /\ caGets[j].at - caGets[i].at < caCfg.ttlMs
  /\ i \in caGets[j].since

\* C20: for two get calls on the same key that start less than ttl apart
\* with no invalidate, clear or eviction of the key in between, the first
\* finding nothing cached, fetchFn is invoked exactly once in total and
\* both calls return the fetched value, also when the second get starts
\* while the first get's fetchFn is still pending.
C20_FetchedOncePerTtl ==
  \A i, j \in DOMAIN caGets :
    (/\ WithinTtl(i, j)
     /\ caGets[i].fetched
     /\ caGets[i].st = "returned")
    => /\ ~caGets[j].fetched
       /\ caGets[j].st = "returned" => caGets[j].value = caGets[i].value

\* The step in which a get call starts, and the one in which the fetch of
\* get i resolves.
GetStep == Len(caGets') = Len(caGets) + 1

FetchResolved(i) ==
  /\ caGets[i].st = "fetching"
  /\ Len(caGets') = Len(caGets)
  /\ caGets'[i].st = "returned"

\* C21: a get never returns a stored value whose expiry is <= now; on a
\* miss or an expired entry it invokes fetchFn, stores the result with
\* expiry = (time of storing) + ttl and returns it; expired entries stay in
\* the map until such a read or an eviction: time alone removes nothing.
C21_LazyExpiry ==
  /\ [][GetStep =>
          LET g == caGets'[Len(caGets')]
              stored == MapHas(ca, g.key) /\ MapGet(ca, g.key).expiry > now
          IN  /\ ca' = ca
              /\ IF stored
                 THEN /\ g.st = "returned" /\ ~g.fetched
                      /\ g.value = MapGet(ca, g.key).data
                 ELSE g.st = "fetching" /\ g.fetched]_vars
  /\ [][\A i \in DOMAIN caGets :
          FetchResolved(i) =>
            /\ MapHas(ca', caGets[i].key)
            /\ MapGet(ca', caGets[i].key) =
                 [key |-> caGets[i].key, data |-> caGets'[i].value,
                  expiry |-> now + caCfg.ttlMs]
            /\ caGets'[i].value = i]_vars
  /\ [][now' # now => ca' = ca]_vars

C21_Witness ==
  \E i \in DOMAIN caGets :
    /\ caGets[i].found = "expired"
    /\ caGets[i].st = "returned"
    /\ MapHas(ca, caGets[i].key)
    /\ MapGet(ca, caGets[i].key).data = i
    /\ \E n \in 1..Len(ca) : ca[n].expiry <= now

\* C22: with maxSize >= 1, after any sequence of get, invalidate and clear
\* calls over any keys, the empty string included, the number of stored
\* entries is at most maxSize.
C22_SizeWithinMax == caCfg.maxSize >= 1 => Len(ca) <= caCfg.maxSize

(***************************************************************************)
(* Claims about ResilienceManager.execute.                                 *)
(***************************************************************************)
\* The calls that are past the bulkhead (or met none).
PastBulkhead == {i \in DOMAIN mgCalls : mgCalls[i].passed}

\* One deadline, set before any attempt for timeout.response after the
\* call passed the bulkhead, and the caller settled by then.
DeadlineHolds(i) ==
  LET c == mgCalls[i]
  IN  /\ c.timers = 1
      /\ c.attemptsAtTimer = 0
      /\ c.caller = Pending =>
           /\ now <= c.due
           /\ c.timer = "pending" /\ c.deadline = c.due
      /\ ~c.late

\* C19: for a target with timeout and retry configured, exactly one
\* deadline is started per execute call, before the first attempt, and
\* retries do not restart it; once the call has passed the bulkhead, the
\* caller's promise settles no later than timeout.response after that,
\* whatever the number of attempts and backoff sleeps.
C19_OneDeadlinePerCall ==
  ({"timeout", "retry"} \subseteq mgLayers) =>
    /\ \A i \in DOMAIN mgCalls : mgCalls[i].timers <= 1
    /\ \A i \in PastBulkhead : DeadlineHolds(i)

\* What call i's operation did, as the caller of a bare operation sees it.
OperationOutcome(i) ==
  MgOutcome(i, mgCalls[i].last.kind, mgCalls[i].last.error)

\* The layers that are not configured are the identity.
AbsentLayersAreIdentity(i) ==
  LET c == mgCalls[i]
  IN  /\ "bulkhead" \notin mgLayers =>
           bh = BulkheadInit /\ c.slot = "none" /\ c.passed
      /\ "timeout" \notin mgLayers =>
           c.timer = "none" /\ c.timers = 0 /\ c.race = Pending
      /\ "retry" \notin mgLayers => c.retry = RPIdle /\ c.invoked <= 1
      /\ "circuitBreaker" \notin mgLayers => cb = ObsInit
      /\ mgLayers = {} =>
           /\ c.invoked = 1
           /\ c.caller = Pending <=> c.op = "inflight"
           /\ c.caller # Pending => c.caller = OperationOutcome(i)

\* The configured layers are nested bulkhead, timeout, retry, breaker.
LayersAreNested(i) ==
  LET c == mgCalls[i]
  IN  /\ "bulkhead" \in mgLayers =>
           /\ c.slot \in {"queued", "full", "noop"} =>
                c.invoked = 0 /\ c.timers = 0 /\ c.retry = RPIdle
           /\ c.slot = "full" => c.caller = BulkheadFull
           /\ c.slot = "own" => c.caller = Pending
           /\ c.slot = "released" => c.caller # Pending
      /\ "timeout" \in mgLayers =>
           /\ c.slot \in {"none", "own"} => c.timers = 1
           /\ c.timers <= 1 /\ c.attemptsAtTimer = 0
           /\ c.timers = 1 /\ c.caller # Pending =>
                /\ c.caller = c.race
                /\ c.caller = TimedOut => c.timer = "fired"
           /\ c.timers = 0 /\ c.slot = "released" =>
                c.caller = Outcome("resolved", NoOp)
      /\ "retry" \in mgLayers /\ c.invoked > 0 =>
           /\ c.invoked <= c.retry.attempt
           /\ "circuitBreaker" \notin mgLayers => c.invoked = c.retry.attempt
           /\ "timeout" \notin mgLayers /\ c.caller.kind \in {"resolved", "rejected"}
                /\ c.slot # "noop" =>
                c.caller = MgOutcome(i, c.retry.pc, c.retry.result.error)

\* The breaker's counters move only when an operation settles, and then as
\* onSuccess or onFailure move them.
BreakerIsInnermost ==
  LET settled == {i \in DOMAIN mgCalls : mgCalls[i].op = "inflight"
                                          /\ mgCalls'[i].op = "none"
                                          /\ mgCalls'[i].invoked = mgCalls[i].invoked}
  IN  /\ settled = {} =>
           /\ cb'.failureCount = cb.failureCount
           /\ cb'.successCount = cb.successCount
      /\ \A i \in settled :
           "circuitBreaker" \in mgLayers =>
             LET after == IF mgCalls'[i].last.kind = "resolved"
                          THEN ObsOnSuccess(cb, now)
                          ELSE ObsOnFailure(cb, cbCfg, now)
             IN  /\ cb'.failureCount = after.failureCount
                 /\ cb'.successCount = after.successCount

\* C23: execute composes exactly the layers configured for the target,
\* nested outer to inner as bulkhead, timeout, retry, circuit breaker,
\* operation, with every layer that is not configured replaced by the
\* identity; with no layer configured the operation is invoked exactly once
\* and its result or error is returned unchanged.
C23_ComposesConfiguredLayers ==
  /\ [](\A i \in DOMAIN mgCalls :
          AbsentLayersAreIdentity(i) /\ LayersAreNested(i))
  /\ [][BreakerIsInnermost]_vars

\* C23 witness: with all four layers, a call retried behind one timer whose
\* failures the breaker recorded, returned to the caller by the bulkhead.
C23_Witness ==
  /\ mgLayers = Layers
  /\ \E i \in DOMAIN mgCalls :
       /\ mgCalls[i].slot = "released"
       /\ mgCalls[i].invoked >= 2
       /\ mgCalls[i].timers = 1
       /\ mgCalls[i].caller.kind = "rejected"
       /\ cb.failureCount >= 2

(***************************************************************************)
(* Claims about ResilienceManager.getServiceHealth, checked in every       *)
(* state the target's execute calls reach.                                 *)
(***************************************************************************)
Health == ObsGetServiceHealth(mgLayers, cb)
HasBreaker == "circuitBreaker" \in mgLayers

\* C24: the reported status is a function of the target's breaker only:
\* unhealthy iff the state is OPEN, degraded iff it is HALF_OPEN or CLOSED
\* with failureCount > 0, healthy iff it is CLOSED with failureCount = 0 or
\* the target has no breaker.
C24_StatusFromBreaker ==
  /\ Health.status = "unhealthy" <=> HasBreaker /\ cb.state = "OPEN"
  /\ Health.status = "degraded" <=>
       /\ HasBreaker
       /\ \/ cb.state = "HALF_OPEN"
          \/ cb.state = "CLOSED" /\ cb.failureCount > 0
  /\ Health.status = "healthy" <=>
       \/ ~HasBreaker
       \/ cb.state = "CLOSED" /\ cb.failureCount = 0

\* C24 witness: a CLOSED breaker with one failure recorded reports degraded
\* while a call is still retrying.
C24_Witness ==
  /\ HasBreaker
  /\ cb.state = "CLOSED" /\ cb.failureCount = 1
  /\ Health.status = "degraded"
  /\ \E i \in DOMAIN mgCalls : mgCalls[i].retry.pc = "sleeping"

\* errorRate * (failureCount + successCount) = failureCount * k, as
\* fractions.
RateTimesTotalIs(k) ==
  Health.errorRate.num * (cb.failureCount + cb.successCount)
    = cb.failureCount * k * Health.errorRate.den

\* 0 <= errorRate <= k
RateWithin(k) ==
  /\ 0 <= Health.errorRate.num
  /\ Health.errorRate.num <= k * Health.errorRate.den

RateIsZero == Health.errorRate.num = 0

NoSample == ~HasBreaker \/ cb.failureCount + cb.successCount = 0

\* C25 as stated: errorRate equals failureCount / (failureCount +
\* successCount) of the target's breaker, i.e. errorRate * (failureCount +
\* successCount) = failureCount and 0 <= errorRate <= 1, and errorRate = 0
\* when both counters are zero or the target has no breaker.
C25_ErrorRateIsRatio ==
  /\ HasBreaker => RateTimesTotalIs(1)
  /\ RateWithin(1)
  /\ NoSample => RateIsZero

\* C25 amended: errorRate is that ratio as a percentage: errorRate *
\* (failureCount + successCount) = 100 * failureCount and 0 <= errorRate <=
\* 100, and errorRate = 0 when both counters are zero or the target has no
\* breaker.
C25_ErrorRateIsPercentage ==
  /\ Health.errorRate.den > 0
  /\ HasBreaker => RateTimesTotalIs(100)
  /\ RateWithin(100)
  /\ NoSample => RateIsZero

\* C25 witness: one failure and one success recorded: errorRate is 50.
C25_Witness ==
  /\ HasBreaker
  /\ cb.failureCount = 1 /\ cb.successCount = 1
  /\ Health.errorRate = Fraction(100, 2)

(***************************************************************************)
(* Claims about a component standing alone, checked under SpecAlone.       *)
(***************************************************************************)
\* This step is an execute call the breaker rejected.
BreakerRejects ==
  /\ HasComponent("circuitBreaker")
  /\ cb.state = "OPEN"
  /\ cbEvent' = Event("execute", "rejected")

\* This step is an execute call the bulkhead of resilience.ts rejected.
BulkheadRejects ==
  /\ HasComponent("bulkhead")
  /\ bhClass = "obs"
  /\ Len(bhCalls') = Len(bhCalls) + 1
  /\ bhCalls'[Len(bhCalls')].result = BulkheadFull

\* C26: a call rejected because the breaker is OPEN (either class) or
\* because the queue of the bulkhead of resilience.ts is full does not
\* invoke the operation and leaves failureCount, successCount, the breaker
\* state, the stored timestamps, running and the wait queue as they were.
C26_RejectionHasNoEffect ==
  [][ /\ BreakerRejects => cb' = cb /\ inflight' = inflight
      /\ BulkheadRejects =>
           /\ bh' = bh
           /\ bhRuns' = bhRuns
           /\ bhCalls' = Append(bhCalls, bhCalls'[Len(bhCalls')])
           /\ bhCalls'[Len(bhCalls')].invoked = 0
    ]_vars

\* C26 witness: a call rejected by an OPEN breaker of part_000 while
\* another operation is in flight.
C26_Witness ==
  /\ HasComponent("circuitBreaker")
  /\ cbClass = "pat"
  /\ cbEvent = Event("execute", "rejected")
  /\ cb.state = "OPEN"
  /\ inflight > 0

(***************************************************************************)
(* Claims about the breaker's transitions under concurrent callers,        *)
(* checked under SpecCB.                                                   *)
(***************************************************************************)
Transitions ==
  {<<"CLOSED", "OPEN">>, <<"OPEN", "HALF_OPEN">>,
   <<"HALF_OPEN", "CLOSED">>, <<"HALF_OPEN", "OPEN">>}

\* C27: over every interleaving of execute calls and completions, reset()
\* excluded, the only state changes are CLOSED->OPEN, OPEN->HALF_OPEN,
\* HALF_OPEN->CLOSED and HALF_OPEN->OPEN: never OPEN->CLOSED nor
\* CLOSED->HALF_OPEN in one step.
C27_OnlyListedTransitions ==
  [][cbEvent'.op # "reset" /\ cb'.state # cb.state
       => <<cb.state, cb'.state>> \in Transitions]_vars

\* C27 witness: a breaker that opened is CLOSED again, by a success, while
\* another operation is in flight.
C27_Witness ==
  /\ cb.state = "CLOSED"
  /\ cbEvent = Event("success", "none")
  /\ hist.openedAt # Undefined
  /\ inflight > 0

\* C28: in resilience.ts, whenever the state is OPEN, nextRetryTime is
\* defined and equals the time of the transition into OPEN plus
\* resetTimeout: failures of other in-flight operations recorded while the
\* breaker is already OPEN do not change it.
C28_RetryTimeSetOnceOnOpening ==
  cbClass = "obs" /\ cb.state = "OPEN" =>
    /\ cb.nextRetryTime # Undefined
    /\ cb.nextRetryTime = hist.openedAt + ResetTimeout

\* C29: whenever the state is HALF_OPEN, failureCount equals the number of
\* failures recorded since the breaker last entered HALF_OPEN, so it is 0
\* on entry.
C29_HalfOpenCountsOwnFailures ==
  cb.state = "HALF_OPEN" => cb.failureCount = hist.hoFail

\* C30: at the step that takes the breaker from HALF_OPEN to CLOSED all
\* counters are reset: failureCount = 0 and successCount = 0 right after.
C30_ClosingResetsCounters ==
  [][cbEvent'.op # "reset" /\ cb.state = "HALF_OPEN" /\ cb'.state = "CLOSED"
       => cb'.failureCount = 0 /\ cb'.successCount = 0]_vars

(***************************************************************************)
(* Claims about retries behind the breaker, checked under SpecManager.     *)
(***************************************************************************)
RetryThroughBreaker == {"retry", "circuitBreaker"} \subseteq mgLayers

\* Call i invokes its operation in this step.
Invokes(i) == mgCalls'[i].invoked = mgCalls[i].invoked + 1

\* The operation of call i rejects in this step.
OperationRejects(i) ==
  /\ mgCalls[i].op = "inflight"
  /\ mgCalls'[i].invoked = mgCalls[i].invoked
  /\ mgCalls'[i].op = "none"
  /\ mgCalls'[i].last.kind = "rejected"

\* Every attempt goes through CircuitBreaker.execute: an invocation is one
\* the breaker admits, and a rejected operation adds one to failureCount.
AttemptsPassBreaker ==
  \A i \in DOMAIN mgCalls :
    /\ i \in DOMAIN mgCalls' /\ Invokes(i) =>
         ObsExecuteHead(cb, cbCfg, now).invoke
    /\ OperationRejects(i) => cb'.failureCount = cb.failureCount + 1

\* C31 as stated: with retry and circuit breaker configured, every attempt
\* goes through CircuitBreaker.execute, each failed attempt adds one to
\* failureCount, and once the breaker opened during a call's retry sequence
\* no later attempt of that sequence invokes the operation.
C31_NoInvocationAfterTrip ==
  [][RetryThroughBreaker =>
       /\ AttemptsPassBreaker
       /\ \A i \in DOMAIN mgCalls : mgCalls[i].tripped => ~Invokes(i)]_vars

\* C31 amended: ... once the breaker opened during a call's retry sequence,
\* a later attempt of that sequence made while the breaker is OPEN and
\* before nextRetryTime does not invoke the operation and gets the
\* circuit-open error; an attempt made at nextRetryTime or later is let
\* through as the HALF_OPEN trial.
C31_NoInvocationWhileOpen ==
  [][RetryThroughBreaker =>
       /\ AttemptsPassBreaker
       /\ \A i \in DOMAIN mgCalls :
            /\ mgCalls[i].tripped /\ Invokes(i) =>
                 \/ cb.state # "OPEN"
                 \/ now >= cb.nextRetryTime /\ cb'.state = "HALF_OPEN"
            /\ mgCalls[i].tripped /\ mgCalls[i].retry.pc = "sleeping"
                 /\ mgCalls'[i].retry.attempt = mgCalls[i].retry.attempt + 1
                 /\ cb.state = "OPEN" /\ now < cb.nextRetryTime =>
                 /\ ~Invokes(i)
                 /\ mgCalls'[i].retry.lastError = CircuitOpenError]_vars

\* C31 witness: a call whose second failure opened the breaker has its
\* third attempt in flight as the HALF_OPEN trial.
C31_Witness ==
  /\ RetryThroughBreaker
  /\ cb.state = "HALF_OPEN"
  /\ \E i \in DOMAIN mgCalls :
       /\ mgCalls[i].tripped
       /\ mgCalls[i].invoked = 3
       /\ mgCalls[i].op = "inflight"

(***************************************************************************)
(* Claims about the bulkhead's progress, checked under SpecBulkheadLive.   *)
(***************************************************************************)
HasSlots == bhCfg.maxConcurrent >= 1

CallIs(j, st) == Len(bhCalls) >= j /\ bhCalls[j].st = st

NoCallPending == \A j \in DOMAIN bhCalls : bhCalls[j].st = "settled"

\* A run ends in this step, with a result or with an error.
RunEnds(f) == f \in bhRuns /\ f \notin bhRuns'

\* C32: with maxConcurrent >= 1 and operations that all settle, every
\* queued caller is dequeued and its promise settles; a slot is released on
\* failure as on success (the runs under way are what running counts); and
\* once no caller is pending, running = 0 and the queue is empty.
C32_WaitersAreServed ==
  /\ \A j \in 1..MaxCalls :
       (HasSlots /\ CallIs(j, "queued")) ~>
         (CallIs(j, "settled") /\ bhCalls[j].dequeuedAs > 0)
  /\ [](HasSlots => bh.running = Cardinality(bhRuns))
  /\ [][HasSlots =>
          \A f \in bhRuns :
            RunEnds(f) =>
              bh'.running = bh.running - 1 + Cardinality(bhRuns' \ bhRuns)]_vars
  /\ [](HasSlots /\ NoCallPending => bh.running = 0 /\ bh.queue = <<>>)

\* C32 witness: a caller that waited in the queue behind an operation that
\* failed is settled, and the bulkhead is idle again.
C32_Witness ==
  /\ HasSlots
  /\ NoCallPending
  /\ bh = BulkheadInit
  /\ \E i, j \in DOMAIN bhCalls :
       /\ bhCalls[i].result.kind = "rejected"
       /\ bhCalls[j].wasQueued /\ bhCalls[j].dequeuedAs > 0

\* The calls whose operation has been invoked and has not settled.
OperationsInFlight == {i \in DOMAIN mgCalls : mgCalls[i].op = "inflight"}

\* C33: for a target with bulkhead and timeout configured, the operations
\* invoked and not yet settled are at most bulkhead.maxConcurrent at every
\* moment, those of calls that already timed out included.
C33_InFlightWithinMaxConcurrent ==
  {"bulkhead", "timeout"} \subseteq mgLayers =>
    Cardinality(OperationsInFlight) <= bhCfg.maxConcurrent

(***************************************************************************)
(* Claims about an operation that outlives its timeout, checked under      *)
(* SpecTimeout.                                                            *)
(***************************************************************************)
\* The timer of call i fired and its operation has not settled.
Outlived(i) == TimerFirst(toCalls[i]) /\ toCalls[i].opSeq = 0

\* C34: for each timeout guard, when the timer fires first the operation
\* is not cancelled: it is still under way and may settle later, and its
\* late result or error does not change what the caller received, which
\* stays the timeout error.
C34_LateResultIsDiscarded ==
  /\ [](\A i \in DOMAIN toCalls :
          Outlived(i) =>
            /\ toCalls[i].opOutcome = Pending
            /\ toCalls[i].promise = TimedOut
            /\ ENABLED TOOperationSettles)
  /\ [][\A i \in DOMAIN toCalls :
          Outlived(i) /\ toCalls'[i].opSeq > 0 =>
            /\ toCalls'[i].opOutcome.kind \in {"resolved", "rejected"}
            /\ toCalls'[i].opOutcome.of = i
            /\ toCalls'[i].promise = TimedOut
            /\ toCalls'[i].settles = toCalls[i].settles]_vars

\* C34 witness: the operation resolved after the timer had fired and the
\* caller still holds the timeout error.
C34_Witness ==
  \E i \in DOMAIN toCalls :
    /\ TimerFirst(toCalls[i])
    /\ toCalls[i].opSeq = 2
    /\ toCalls[i].opOutcome = Outcome("resolved", i)
    /\ toCalls[i].promise = TimedOut
    /\ toCalls[i].settles = 1

(***************************************************************************)
(* Claims about a call that has timed out, checked under SpecManager.      *)
(***************************************************************************)
\* The timer of call i won the race: the timeout error went to the caller.
HasTimedOut(i) == mgCalls[i].race = TimedOut

\* The operation of call i settles in this step.
OperationSettles(i) ==
  /\ mgCalls[i].op = "inflight"
  /\ mgCalls'[i].invoked = mgCalls[i].invoked
  /\ mgCalls'[i].op = "none"

\* The retry loop of call i after this settling, as RetryPolicy.execute
\* goes on.
LoopGoesOn(i) ==
  LET how == mgCalls'[i].last
  IN  mgCalls'[i].retry =
        IF how.kind = "resolved"
        THEN ObsRetryOnResolve(mgCalls[i].retry, "v1")
        ELSE ObsRetryOnReject(rpCfg, mgCalls[i].retry, how.error)

\* The breaker after this settling, as onSuccess or onFailure leave it.
BreakerRecords(i) ==
  cb' = IF mgCalls'[i].last.kind = "resolved"
        THEN ObsOnSuccess(cb, now)
        ELSE ObsOnFailure(cb, cbCfg, now)

\* C35: with timeout, retry and circuit breaker configured, after the
\* caller received the timeout error the retry loop of the call goes on: it
\* can still sleep and invoke the operation again, up to maxAttempts
\* invocations in all, and every outcome is still recorded by the breaker,
\* whose state can change because of a call that already timed out.
C35_LoopOutlivesTimeout ==
  /\ [](\A i \in DOMAIN mgCalls :
          {"timeout", "retry", "circuitBreaker"} \subseteq mgLayers
          /\ HasTimedOut(i) =>
            mgCalls[i].invoked <= rpCfg.maxAttempts)
  /\ [][\A i \in DOMAIN mgCalls :
          {"timeout", "retry", "circuitBreaker"} \subseteq mgLayers
          /\ mgCalls[i].race = Pending /\ mgCalls'[i].race = TimedOut =>
            /\ mgCalls'[i].retry = mgCalls[i].retry
            /\ mgCalls'[i].wakeAt = mgCalls[i].wakeAt
            /\ mgCalls'[i].op = mgCalls[i].op
            /\ cb' = cb]_vars
  /\ [][\A i \in DOMAIN mgCalls :
          {"timeout", "retry", "circuitBreaker"} \subseteq mgLayers
          /\ HasTimedOut(i) =>
            /\ mgCalls'[i].race = TimedOut
            /\ OperationSettles(i) => LoopGoesOn(i) /\ BreakerRecords(i)
            /\ mgCalls[i].retry.pc = "sleeping"
                 /\ mgCalls'[i].retry.attempt = mgCalls[i].retry.attempt + 1
                 /\ mgCalls[i].retry.attempt < rpCfg.maxAttempts =>
                 Invokes(i) <=> ObsExecuteHead(cb, cbCfg, now).invoke]_vars

\* C35 witness: the only call timed out after one time unit; its third
\* attempt, the HALF_OPEN trial made later than that, failed and opened
\* the breaker again.
C35_Witness ==
  /\ {"timeout", "retry", "circuitBreaker"} \subseteq mgLayers
  /\ toCfg.response = 1
  /\ Len(mgCalls) = 1
  /\ HasTimedOut(1)
  /\ mgCalls[1].invoked = 3
  /\ cb.failureCount = 3
  /\ cb.state = "OPEN"

(***************************************************************************)
(* Claims about CacheAside.set and a fetchFunction that rejects, checked   *)
(* under SpecCache.                                                        *)
(***************************************************************************)
KeysOf(cache) == {cache[n].key : n \in 1..Len(cache)}

IndexOf(cache, key) == CHOOSE n \in 1..Len(cache) : cache[n].key = key

\* The keys present before and after the step are in the same order.
OrderKept ==
  \A k1, k2 \in KeysOf(ca) \cap KeysOf(ca') :
    IndexOf(ca, k1) < IndexOf(ca, k2) => IndexOf(ca', k1) < IndexOf(ca', k2)

\* What the set of get i did to the entries that were there.
SetEvictsOldest(i) ==
  LET key == caGets[i].key
      gone == {n \in 1..Len(ca) : ca[n].key # key /\ ~MapHas(ca', ca[n].key)}
      oldest == IF ca[1].key = key THEN {} ELSE {1}
  IN  /\ MapHas(ca', key)
      /\ \A n \in 1..Len(ca) :
           ca[n].key # key /\ n \notin gone => MapGet(ca', ca[n].key) = ca[n]
      /\ IF Len(ca) >= caCfg.maxSize THEN gone = oldest ELSE gone = {}
      /\ OrderKept

\* C36: when an insertion finds the cache at maxSize, exactly one entry is
\* removed and it is the one whose key was inserted earliest (re-fetching
\* an expired key keeps the key's position); below maxSize no entry is
\* removed.
C36_EvictsOldestInserted ==
  [][\A i \in DOMAIN caGets :
       caCfg.maxSize >= 1 /\ FetchResolved(i) => SetEvictsOldest(i)]_vars

\* The step in which the fetchFunction of get i rejects.
FetchRejected(i) ==
  /\ caGets[i].st = "fetching"
  /\ Len(caGets') = Len(caGets)
  /\ caGets'[i].st = "rejected"

\* A get on the key would invoke fetchFunction.
WouldFetch(cache, key, t) == ~PatCacheLookup(cache, key, t).hit

\* The frame of a rejected fetch: get rejects with the error thrown and
\* the Map is what it was.
RejectionLeavesCache(i) ==
  /\ caGets'[i].error = caGets'[i].thrown
  /\ caGets'[i].error \in FetchErrors
  /\ ca' = ca

Target(s) == mgr.targets[s]

BreakerOf(s) == "circuitBreaker" \in mgr.configs[s].layers

\* The breaker of the service is OPEN and its retry time has come.
OpenAndDue(s) ==
  /\ BreakerOf(s)
  /\ Target(s).cb.state = "OPEN"
  /\ now >= ObsRetryAt(Target(s).cb)

\* The step is a getServiceHealth or getAllServiceHealth call.
HealthCall == mgr'.said # <<>>

\* C38: getServiceHealth and getAllServiceHealth are read-only: they leave
\* every breaker's state, counters and timestamps and every bulkhead's
\* running count and queue unchanged; an OPEN breaker whose resetTimeout
\* has elapsed is still reported unhealthy, and stays OPEN until the next
\* execute call.
C38_HealthIsReadOnly ==
  /\ [][HealthCall =>
          /\ mgr'.targets = mgr.targets
          /\ mgr'.configs = mgr.configs
          /\ \A n \in DOMAIN mgr'.said :
               LET r == mgr'.said[n]
               IN  /\ r.health = ObsGetServiceHealth(mgr.configs[r.service].layers,
                                                     Target(r.service).cb)
                   /\ OpenAndDue(r.service) =>
                        /\ r.health.status = "unhealthy"
                        /\ r.health.circuitBreaker.state = "OPEN"]_vars
  /\ [][\A s \in Services :
          OpenAndDue(s) /\ mgr'.targets[s].cb.state # "OPEN"
            => Len(mgr'.targets[s].calls) = Len(Target(s).calls) + 1]_vars

\* getAllServiceHealth has just reported a breaker unhealthy that is OPEN
\* past its retry time.
C38_Witness ==
  /\ Len(mgr.said) = 2
  /\ \E n \in DOMAIN mgr.said :
       /\ OpenAndDue(mgr.said[n].service)
       /\ mgr.said[n].lastCheck = now
       /\ mgr.said[n].health.status = "unhealthy"
       /\ now > ObsRetryAt(Target(mgr.said[n].service).cb)

\* What one step of one of its execute calls makes of a target's
\* components w, given the target's configuration g alone.
TargetSteps(w, g, t) ==
  {MgBulkheadExecute([w EXCEPT !.calls = Append(@, ManagedCall)], g,
                     Len(w.calls) + 1, t)}
  \cup {MgOperationSettled(w, g, i, "resolved", NoError, t) :
          i \in {j \in DOMAIN w.calls : w.calls[j].op = "inflight"}}
  \cup UNION {{MgOperationSettled(w, g, i, "rejected", e, t) : e \in TargetErrors} :
          i \in {j \in DOMAIN w.calls : w.calls[j].op = "inflight"}}
  \cup {MgTimerFired(w, g, i, t) :
          i \in {j \in DOMAIN w.calls : w.calls[j].timer = "pending"}}
  \cup {MgRunSettled(w, g, i, Outcome("resolved", NoOp), t) :
          i \in {j \in DOMAIN w.calls : w.calls[j].slot = "noop"}}

\* C39: targets are independent: execute calls for X (successes, failures,
\* timeouts, bulkhead rejections) leave Y's breaker state and counters and
\* Y's bulkhead running count and queue unchanged, and do not change the
\* outcome of any execute call for Y: what a step makes of a target is
\* determined by that target's components and configuration.
C39_TargetsAreIndependent ==
  [][\A X \in Services :
       mgr'.targets[X] # Target(X) =>
         /\ \A Y \in Services \ {X} : mgr'.targets[Y] = Target(Y)
         /\ mgr'.targets[X] \in TargetSteps(Target(X), mgr.configs[X], now)]_vars

\* X's breaker is OPEN after a call that timed out and whose operation
\* failed, while Y's only call resolved and Y's breaker counts one success.
C39_Witness ==
  \E X \in Services : \E Y \in Services \ {X} :
    /\ BreakerOf(X) /\ BreakerOf(Y)
    /\ Target(X).cb.state = "OPEN"
    /\ \E i \in DOMAIN Target(X).calls :
         /\ Target(X).calls[i].caller = TimedOut
         /\ Target(X).calls[i].last.kind = "rejected"
    /\ Len(Target(Y).calls) = 1
    /\ Target(Y).calls[1].caller.kind = "resolved"
    /\ Target(Y).cb.state = "CLOSED"
    /\ Target(Y).cb.successCount = 1
    /\ Target(Y).cb.failureCount = 0
    /\ Target(Y).bh.running = 0

(***************************************************************************)
(* The breaker of resilience.ts under execute, completions and reset,      *)
(* checked under SpecCB.                                                   *)
(***************************************************************************)
\* The step records a failure while the breaker is HALF_OPEN.
FailureInHalfOpen ==
  /\ cbClass = "obs"
  /\ cb.state = "HALF_OPEN"
  /\ cbEvent'.op = "failure"
  /\ inflight' = inflight - 1

\* C40: in resilience.ts, whenever the state is OPEN or HALF_OPEN,
\* failureCount >= failureThreshold; consequently any failure recorded in
\* HALF_OPEN re-opens the breaker, and the state is CLOSED whenever
\* failureCount < failureThreshold.
C40_OpenOnlyAtThreshold ==
  /\ [](cbClass = "obs" =>
          /\ cb.state \in {"OPEN", "HALF_OPEN"} => cb.failureCount >= Threshold
          /\ cb.failureCount < Threshold => cb.state = "CLOSED")
  /\ [][FailureInHalfOpen =>
          /\ cb'.state = "OPEN"
          /\ cb'.failureCount = cb.failureCount + 1
          /\ cb'.nextRetryTime = now + ResetTimeout]_vars

\* A failure recorded in HALF_OPEN has re-opened the breaker after a
\* success was recorded while it was OPEN.
C40_Witness ==
  /\ cbClass = "obs"
  /\ cb.state = "OPEN"
  /\ cbEvent.op = "failure"
  /\ hist.hoFailAt = now
  /\ cb.failureCount = Threshold + 1
  /\ cb.successCount >= 1

====
